---- MODULE Spec2Model ----
(***************************************************************************)
(* State-machine model of rppal's GPIO peripheral interface:               *)
(*   src/src/gpio.rs      Gpio (singleton handle, interrupts, teardown)    *)
(*   src/src/gpio/pin.rs  Pin, InputPin, OutputPin (scoped guards)         *)
(* The register bus (gpio/mem.rs) and the interrupt event loop and async   *)
(* workers (gpio/interrupt.rs) are modelled from their documented          *)
(* contracts.                                                              *)
(***************************************************************************)
EXTENDS Integers, Sequences, FiniteSets, TLC

(* ---------------------------------------------------------------- bounds *)
\* Threads that call Gpio::new concurrently.
NumThreads == 2
\* Pins of the model: the first NumPins of PinIds.
NumPins == 2
\* Async worker threads that exist at the same time.
MaxWorkers == 2
\* Edges the hardware produces in a run.
MaxEdges == 2
\* Edge records a line-event handle holds unread (the kernel's fifo).
MaxQueue == 2

(* ------------------------------------------------------------- constants *)
GPIO_MAX_PINS == 54
GPIO_OFFSET_GPFSEL == 0
GPIO_OFFSET_GPSET == 7
GPIO_OFFSET_GPCLR == 10
GPIO_OFFSET_GPLEV == 13
GPIO_OFFSET_GPPUD == 37
GPIO_OFFSET_GPPUDCLK == 38

Threads == 1..NumThreads
\* The thread that owns and uses the handle in the single-owner specifications.
Main == CHOOSE t \in Threads : \A u \in Threads : t <= u
\* Pin indexes of the model, all below GPIO_MAX_PINS: 30 and 32 share a
\* function-select word (pin / 10) and lie in different level, set, clear
\* and pull-clock words (pin / 32).
PinIds == <<30, 32, 0, 53>>
Pins == {PinIds[i] : i \in 1..NumPins}
Wids == 1..MaxWorkers

\* enum Mode: Input = 0b000 .. Alt3 = 0b111
Mode_Input == 0
Mode_Output == 1
Mode_Alt0 == 4
Modes == 0..7

NoMode == -1
NoGuard == [kind |-> "none"]

\* Option::None of a cached edge, of a polled edge
NoEdge == [level |-> "None", seq |-> 0]
\* No call is blocked
Idle == [op |-> "idle"]
\* What an interrupt call returned: op(pin) returned res; a poll that
\* returned Some carries the edge, and waited tells whether it called the
\* multiplexer's wait.
Ret(op, p, res) ==
    [op |-> op, pin |-> p, res |-> res, edge |-> NoEdge, waited |-> FALSE]
NoRet == Ret("none", 0, "none")
\* A worker slot of the model that holds no thread
FreeWorker == [st |-> "free", pin |-> 0, trigger |-> "Disabled",
               stop |-> FALSE, ready |-> FALSE]

(* ------------------------------------------------------------- variables *)
VARIABLES
    GPIO_INSTANCED,   \* static mut GPIO_INSTANCED: AtomicBool
    pc,               \* per thread: "idle" | "init" | "lost" (inside Gpio::new) | "live"
    gpio,             \* per thread: the Gpio built by the thread (see NewGpio)
    lastNew,          \* per thread: what the thread's last Gpio::new returned
    regs,             \* the peripheral's registers, by word offset
    orig,             \* per thread: the registers when its handle was built
    guard,            \* per thread and pin: the InputPin / OutputPin alive
    wrote,            \* the last guard creation or drop called Pin::set_mode
    sync_interrupts,  \* per thread and pin: the trigger armed in the EventLoop
    fdq,              \* per thread and pin: edge records unread in the line-event handle
    cache,            \* per thread and pin: the EventLoop's cached edge
    async_interrupts, \* per thread and pin: Gpio.async_interrupts (a worker, or 0)
    workers,          \* the async workers: thread state, stop signal, readiness
    call,             \* per thread: the call blocked in AsyncInterrupt::stop
    ret,              \* per thread: what its last interrupt call returned
    nedges            \* edges the hardware has produced so far

vars == <<GPIO_INSTANCED, pc, gpio, lastNew, regs, orig, guard, wrote,
          sync_interrupts, fdq, cache, async_interrupts, workers, call, ret,
          nedges>>

lifeVars == <<GPIO_INSTANCED, pc, gpio, lastNew, orig>>
pinVars == <<regs, guard, wrote>>
loopVars == <<sync_interrupts, fdq, cache>>
irqVars == <<loopVars, async_interrupts, workers, call, ret, nedges>>

(* ------------------------------------------------------- register access *)
Pow2(n) == 2 ^ n

\* (v >> s) & 0b111
Bits3(v, s) == (v \div Pow2(s)) % 8

\* (v & !(0b111 << s)) | ((m & 0b111) << s). The shift is at most 27, so
\* the field ends at bit 29 and the u32 word never overflows.
SetBits3(v, s, m) == v - Bits3(v, s) * Pow2(s) + (m % 8) * Pow2(s)

FselWord(p) == GPIO_OFFSET_GPFSEL + (p \div 10)
FselShift(p) == (p % 10) * 3

\* Pin::set_pullupdown: the pull-clock word of the pin
PudClkWord(p) == GPIO_OFFSET_GPPUDCLK + (p \div 32)

\* InputPin::read: the level word of the pin
LevWord(p) == GPIO_OFFSET_GPLEV + (p \div 32)

\* The words the model keeps: function select, level, pull control and pull
\* clock. The set and clear words are write-only and keep no value.
RegOffsets ==
    {FselWord(p) : p \in Pins}
        \cup {LevWord(p) : p \in Pins}
        \cup {GPIO_OFFSET_GPPUD} \cup {PudClkWord(p) : p \in Pins}

\* Pin::mode
PinMode(r, p) == Bits3(r[FselWord(p)], FselShift(p))

\* Pin::set_mode: read-modify-write of the pin's function-select word
PinSetMode(r, p, m) ==
    [r EXCEPT ![FselWord(p)] = SetBits3(r[FselWord(p)], FselShift(p), m)]


(* ------------------------------------------------- Gpio: the handle *)
\* The Gpio struct as Gpio::new builds it; mapped and close_calls describe
\* its GpioMem (open() has mapped the page; close() calls so far).
NewGpio == [initialized |-> TRUE, clear_on_drop |-> TRUE,
            mapped |-> TRUE, close_calls |-> 0]

\* A thread that has built nothing yet.
NoGpio == [initialized |-> FALSE, clear_on_drop |-> TRUE,
           mapped |-> FALSE, close_calls |-> 0]

\* A faulty variant of cleanup_internal: the bus is closed and initialized
\* stays set.
cleanup_internal_keepflag(g) ==
    [g EXCEPT !.mapped = FALSE, !.close_calls = @ + 1]

\* Gpio::cleanup_internal: close the register bus, clear initialized
cleanup_internal(g) ==
    [g EXCEPT !.mapped = FALSE, !.close_calls = @ + 1, !.initialized = FALSE]

\* Drop for Gpio, the part that acts on the handle's own fields
drop_Gpio(g) ==
    IF g.clear_on_drop /\ g.initialized THEN cleanup_internal(g) ELSE g

\* A faulty variant of drop_Gpio_flag: the flag is left as claimed.
drop_Gpio_flag_stale == TRUE

\* The value Drop for Gpio stores into GPIO_INSTANCED
drop_Gpio_flag == FALSE

\* No InputPin / OutputPin borrows the thread's Gpio (the &mut self methods
\* and the by-value cleanup and drop need the Gpio unborrowed).
Unborrowed(t) == \A p \in Pins : guard[t][p] = NoGuard

\* The thread is not inside a call of its own (blocked in a join).
Ready(t) == call[t] = Idle

\* The handle's event loop and async table hold nothing. The model tears a
\* handle down only in this state.
Disarmed(t) ==
    \A p \in Pins : /\ sync_interrupts[t][p] = "Disabled"
                    /\ async_interrupts[t][p] = 0

\* Gpio::new, line 272: the load of GPIO_INSTANCED. A thread that holds a
\* handle may call it too; the model keeps at most one handle per thread.
NewLoad(t) ==
    /\ pc[t] \in {"idle", "live"}
    /\ Ready(t)
    /\ IF GPIO_INSTANCED
       THEN /\ lastNew' = [lastNew EXCEPT ![t] = "InstanceExists"]
            /\ UNCHANGED <<pc, gpio>>
       ELSE /\ pc[t] = "idle"
            /\ pc' = [pc EXCEPT ![t] = "init"]
            /\ gpio' = [gpio EXCEPT ![t] = NoGpio]
            /\ lastNew' = [lastNew EXCEPT ![t] = "pending"]
    /\ UNCHANGED <<GPIO_INSTANCED, orig, pinVars, irqVars>>

\* Gpio::new, line 277: ioctl::find_driver()? fails
NewFindDriverFails(t) ==
    /\ pc[t] = "init"
    /\ pc' = [pc EXCEPT ![t] = "idle"]
    /\ lastNew' = [lastNew EXCEPT ![t] = "UnknownSoC"]
    /\ UNCHANGED <<GPIO_INSTANCED, gpio, orig, pinVars, irqVars>>

\* Gpio::new, line 282: GpioMem::open()? fails
NewOpenFails(t) ==
    /\ pc[t] = "init"
    /\ pc' = [pc EXCEPT ![t] = "idle"]
    /\ lastNew' = [lastNew EXCEPT ![t] = "PermissionDenied"]
    /\ UNCHANGED <<GPIO_INSTANCED, gpio, orig, pinVars, irqVars>>

\* A faulty variant of NewEventLoopFails: the flag was claimed before the
\* device steps and the failing step returns without releasing it.
NewEventLoopFails_claimed(t) ==
    /\ pc[t] = "init"
    /\ pc' = [pc EXCEPT ![t] = "idle"]
    /\ gpio' = [gpio EXCEPT ![t].mapped = TRUE]
    /\ lastNew' = [lastNew EXCEPT ![t] = "Io"]
    /\ GPIO_INSTANCED' = TRUE
    /\ UNCHANGED <<orig, pinVars, irqVars>>

\* Gpio::new, line 301: EventLoop::new()? fails, after the bus was opened;
\* no Gpio value exists yet, so Drop for Gpio does not run.
NewEventLoopFails(t) ==
    /\ pc[t] = "init"
    /\ pc' = [pc EXCEPT ![t] = "idle"]
    /\ gpio' = [gpio EXCEPT ![t].mapped = TRUE]
    /\ lastNew' = [lastNew EXCEPT ![t] = "Io"]
    /\ UNCHANGED <<GPIO_INSTANCED, orig, pinVars, irqVars>>

\* Gpio::new, lines 295-319: the Gpio is built, then compare_and_swap(false,
\* true) claims the flag, or finds it claimed by another thread.
NewSwap(t) ==
    /\ pc[t] = "init"
    /\ gpio' = [gpio EXCEPT ![t] = NewGpio]
    /\ orig' = [orig EXCEPT ![t] = regs]
    /\ IF GPIO_INSTANCED
       THEN /\ pc' = [pc EXCEPT ![t] = "lost"]
            /\ UNCHANGED <<GPIO_INSTANCED, lastNew>>
       ELSE /\ GPIO_INSTANCED' = TRUE
            /\ pc' = [pc EXCEPT ![t] = "live"]
            /\ lastNew' = [lastNew EXCEPT ![t] = "Ok"]
    /\ UNCHANGED <<pinVars, irqVars>>

\* Gpio::new, line 315: return Err(InstanceExists) drops the Gpio just built
NewLostDrop(t) ==
    /\ pc[t] = "lost"
    /\ gpio' = [gpio EXCEPT ![t] = drop_Gpio(@)]
    /\ GPIO_INSTANCED' = drop_Gpio_flag
    /\ pc' = [pc EXCEPT ![t] = "idle"]
    /\ lastNew' = [lastNew EXCEPT ![t] = "InstanceExists"]
    /\ UNCHANGED <<orig, pinVars, irqVars>>

\* Gpio::set_clear_on_drop
SetClearOnDrop(t, b) ==
    /\ pc[t] = "live"
    /\ Unborrowed(t) /\ Ready(t)
    /\ gpio' = [gpio EXCEPT ![t].clear_on_drop = b]
    /\ UNCHANGED <<GPIO_INSTANCED, pc, lastNew, orig, pinVars, irqVars>>

\* Gpio::cleanup(mut self): cleanup_internal, then self goes out of scope
Cleanup(t) ==
    /\ pc[t] = "live"
    /\ Unborrowed(t) /\ Ready(t) /\ Disarmed(t)
    /\ gpio' = [gpio EXCEPT ![t] = drop_Gpio(cleanup_internal(@))]
    /\ GPIO_INSTANCED' = drop_Gpio_flag
    /\ pc' = [pc EXCEPT ![t] = "idle"]
    /\ UNCHANGED <<lastNew, orig, pinVars, irqVars>>

\* The Gpio goes out of scope: Drop for Gpio
DropGpio(t) ==
    /\ pc[t] = "live"
    /\ Unborrowed(t) /\ Ready(t) /\ Disarmed(t)
    /\ gpio' = [gpio EXCEPT ![t] = drop_Gpio(@)]
    /\ GPIO_INSTANCED' = drop_Gpio_flag
    /\ pc' = [pc EXCEPT ![t] = "idle"]
    /\ UNCHANGED <<lastNew, orig, pinVars, irqVars>>

(* ------------------------------------------ Pin: InputPin and OutputPin *)
\* Modes a pin may be in when the program starts.
StartModes == {Mode_Input, Mode_Output, Mode_Alt0}

\* Target modes of Pin::as_output (Output) and Pin::as_output_with_mode.
OutModes == {Mode_Output, Mode_Alt0}

\* A faulty variant of NewGuard: the prior mode is captured even when the
\* pin already has the target mode.
NewGuard_always(kind, mode, cur) ==
    [kind |-> kind, mode |-> mode, prev_mode |-> cur,
     clear_on_drop |-> TRUE, async_interrupt |-> 0, was |-> cur]

\* InputPin::new / OutputPin::new: the guard built for target mode `mode`
\* on a pin whose Pin::mode() is cur. async_interrupt is InputPin's field (a
\* worker, or 0 for None; an OutputPin has none). The field was is history:
\* the pin's mode before the guard was created.
NewGuard(kind, mode, cur) ==
    [kind |-> kind, mode |-> mode,
     prev_mode |-> IF cur = mode THEN NoMode ELSE cur,
     clear_on_drop |-> TRUE, async_interrupt |-> 0, was |-> cur]

\* InputPin::new / OutputPin::new: set_mode(mode) unless the pin has it
NewGuardWrites(r, p, mode) == PinMode(r, p) # mode

NewGuardRegs(r, p, mode) ==
    IF NewGuardWrites(r, p, mode) THEN PinSetMode(r, p, mode) ELSE r

\* Drop for InputPin / OutputPin: set_mode(prev_mode) unless suppressed or
\* nothing was captured
DropGuardWrites(g) == g.clear_on_drop /\ g.prev_mode # NoMode

DropGuardRegs(r, p, g) ==
    IF DropGuardWrites(g) THEN PinSetMode(r, p, g.prev_mode) ELSE r

\* get_pin(p) locks the pin's mutex: no guard of the pin, of any thread that
\* works on the same handle, holds it
PinFree(t, p) ==
    \A u \in Threads :
        (IF pc[u] = "live" THEN u ELSE Main) = (IF pc[t] = "live" THEN t ELSE Main)
            => guard[u][p] = NoGuard

\* get_pin(p) and Pin::as_input
AsInput(t, p) ==
    /\ pc[t] = "live" /\ Ready(t)
    /\ PinFree(t, p)
    /\ guard' = [guard EXCEPT ![t][p] = NewGuard("in", Mode_Input, PinMode(regs, p))]
    /\ regs' = NewGuardRegs(regs, p, Mode_Input)
    /\ wrote' = NewGuardWrites(regs, p, Mode_Input)
    /\ UNCHANGED <<lifeVars, irqVars>>

\* get_pin(p) and Pin::as_input by a thread the main thread's handle is
\* shared with by reference: get_pin locks the pin's mutex, which no other
\* guard of the pin holds
AsInputShared(u, p) ==
    /\ pc[u] # "live" /\ pc[Main] = "live" /\ Ready(u)
    /\ PinFree(u, p)
    /\ guard' = [guard EXCEPT ![u][p] =
                    NewGuard("in", Mode_Input, PinMode(regs, p))]
    /\ regs' = NewGuardRegs(regs, p, Mode_Input)
    /\ wrote' = NewGuardWrites(regs, p, Mode_Input)
    /\ UNCHANGED <<lifeVars, irqVars>>

\* get_pin(p) and Pin::as_output / Pin::as_output_with_mode(mode)
AsOutput(t, p, mode) ==
    /\ pc[t] = "live" /\ Ready(t)
    /\ PinFree(t, p)
    /\ guard' = [guard EXCEPT ![t][p] = NewGuard("out", mode, PinMode(regs, p))]
    /\ regs' = NewGuardRegs(regs, p, mode)
    /\ wrote' = NewGuardWrites(regs, p, mode)
    /\ UNCHANGED <<lifeVars, irqVars>>

\* InputPin::set_clear_on_drop / OutputPin::set_clear_on_drop
GuardSetClearOnDrop(t, p, b) ==
    /\ guard[t][p] # NoGuard /\ Ready(t)
    /\ guard' = [guard EXCEPT ![t][p].clear_on_drop = b]
    /\ UNCHANGED <<lifeVars, regs, wrote, irqVars>>

\* The guard goes out of scope: Drop for OutputPin
DropOutputPin(t, p) ==
    /\ guard[t][p] # NoGuard /\ Ready(t)
    /\ guard[t][p].kind = "out"
    /\ regs' = DropGuardRegs(regs, p, guard[t][p])
    /\ wrote' = DropGuardWrites(guard[t][p])
    /\ guard' = [guard EXCEPT ![t][p] = NoGuard]
    /\ UNCHANGED <<lifeVars, irqVars>>

(* ------------------------------------- EventLoop: synchronous interrupts *)
Triggers == {"Disabled", "RisingEdge", "FallingEdge", "Both"}

\* The handle whose event loop a thread's calls reach: the thread's own
\* handle, or, for a thread that works on pins of a handle shared with it
\* by reference, the main thread's
LoopOf(t) == IF pc[t] = "live" THEN t ELSE Main

\* A faulty variant of LoopLocked: the event loop is entered without its
\* mutex.
LoopLocked_never(h) == FALSE

\* Pin.event_loop is an Arc<Mutex<EventLoop>>: the mutex of the event loop of
\* handle h is held by a thread that waits inside poll
LoopLocked(h) ==
    \E u \in Threads :
        /\ call[u] # Idle /\ call[u].op = "poll"
        /\ LoopOf(u) = h

\* Whether a line-event handle armed with trigger reports an edge of the kind
Matches(trigger, edge) ==
    \/ trigger = "Both"
    \/ trigger = "RisingEdge" /\ edge = "rising"
    \/ trigger = "FallingEdge" /\ edge = "falling"

\* An edge record read from a line-event handle, as the event loop keeps it:
\* rising edge -> High, falling edge -> Low
EdgeLevel(e) ==
    [level |-> IF e.edge = "rising" THEN "High" ELSE "Low", seq |-> e.seq]

\* A faulty variant of Last: the oldest record of the handle.
Last_oldest(q) == q[1]

Last(q) == q[Len(q)]

\* EventLoop::set_interrupt(pin, trigger): disarm the pin (close the handle,
\* unregister it, drop the cached edge), then arm the trigger unless Disabled
LoopSetInterrupt(t, p, trigger) ==
    /\ sync_interrupts' = [sync_interrupts EXCEPT ![LoopOf(t)][p] = trigger]
    /\ fdq' = [fdq EXCEPT ![LoopOf(t)][p] = <<>>]
    /\ cache' = [cache EXCEPT ![LoopOf(t)][p] = NoEdge]

\* EventLoop::clear_interrupt(pin)
LoopClearInterrupt(t, p) == LoopSetInterrupt(t, p, "Disabled")

\* Pins whose registered line-event handle is readable
ReadyPins(t) ==
    {p \in Pins : /\ sync_interrupts[LoopOf(t)][p] # "Disabled"
                  /\ fdq[LoopOf(t)][p] # <<>>}

\* EventLoop::poll(pins, reset, timeout): every way the call can return, as
\* [res, pin, edge, waited, cache, fdq]. reset discards the cached edges of
\* the requested pins; a cached edge of a requested pin is returned at once;
\* otherwise the multiplexer is waited on: one ready requested pin's first
\* edge is the result and every other edge read in the wake is cached. With
\* no requested pin ready the call times out (None), or stays blocked when
\* timeout is None.
LoopPoll(t, ps, reset, timeout) ==
    LET c1 == [p \in Pins |-> IF reset /\ p \in ps THEN NoEdge
                               ELSE cache[LoopOf(t)][p]]
        cached == {p \in ps : c1[p] # NoEdge}
        ready == ReadyPins(t)
        drained == [p \in Pins |-> IF p \in ready THEN <<>>
                                    ELSE fdq[LoopOf(t)][p]]
        woke(r) == [p \in Pins |->
                      IF p \notin ready THEN c1[p]
                      ELSE IF p # r THEN EdgeLevel(Last(fdq[LoopOf(t)][p]))
                      ELSE IF Len(fdq[LoopOf(t)][p]) > 1
                           THEN EdgeLevel(Last(fdq[LoopOf(t)][p]))
                      ELSE c1[p]]
    IN  IF cached # {}
        THEN {[res |-> "Some", pin |-> p, edge |-> c1[p], waited |-> FALSE,
               cache |-> [c1 EXCEPT ![p] = NoEdge], fdq |-> fdq[LoopOf(t)]]
              : p \in cached}
        ELSE IF ready = {}
        THEN IF timeout
             THEN {[res |-> "None", pin |-> 0, edge |-> NoEdge, waited |-> TRUE,
                    cache |-> c1, fdq |-> fdq[LoopOf(t)]]}
             ELSE {}
        ELSE IF ready \cap ps = {}
        THEN IF timeout
             THEN {[res |-> "None", pin |-> 0, edge |-> NoEdge, waited |-> TRUE,
                    cache |-> woke(-1), fdq |-> drained]}
             ELSE {}
        ELSE {[res |-> "Some", pin |-> r,
               edge |-> EdgeLevel(Head(fdq[LoopOf(t)][r])),
               waited |-> TRUE, cache |-> woke(r), fdq |-> drained]
              : r \in ready \cap ps}

(* ------------------------------------- AsyncInterrupt: the worker thread *)
\* Worker threads that run: blocked in their wait, or inside the callback
Running(w) == workers[w].st \in {"wait", "cb"}

\* AsyncInterrupt::new: the identity the new thread gets among workers W
FreshWid(W) == CHOOSE w \in Wids :
                   /\ W[w].st = "free"
                   /\ \A v \in Wids : W[v].st = "free" => w <= v

\* AsyncInterrupt::new(fd, pin, trigger, callback) in workers W
Spawn(W, w, p, trigger) ==
    [W EXCEPT ![w] = [st |-> "wait", pin |-> p, trigger |-> trigger,
                      stop |-> FALSE, ready |-> FALSE]]

\* AsyncInterrupt::stop, first half: signal the stop handle
SignalStop(W, w) == IF w = 0 THEN W ELSE [W EXCEPT ![w].stop = TRUE]

\* AsyncInterrupt::stop, second half: join returns once the thread is gone
Joined(w) == IF w = 0 THEN TRUE ELSE workers[w].st \in {"exited", "panicked"}

\* The thread's termination shows it failed: stop() returns ThreadPanic
Panicked(w) == IF w = 0 THEN FALSE ELSE workers[w].st = "panicked"

\* After the join both handles are closed and the AsyncInterrupt is dropped
Reaped(w) == IF w = 0 THEN workers ELSE [workers EXCEPT ![w] = FreeWorker]

\* The hardware produces an edge on pin p: every line-event handle armed on
\* the pin with a matching trigger gets a record (a full fifo loses it),
\* every running worker of the pin with a matching trigger becomes ready.
Edge(p, edge) ==
    /\ nedges < MaxEdges
    /\ nedges' = nedges + 1
    /\ fdq' = [t \in Threads |-> [q \in Pins |->
                 IF /\ q = p
                    /\ Matches(sync_interrupts[t][q], edge)
                    /\ Len(fdq[t][q]) < MaxQueue
                 THEN Append(fdq[t][q], [edge |-> edge, seq |-> nedges + 1])
                 ELSE fdq[t][q]]]
    /\ workers' = [w \in Wids |->
                     IF /\ Running(w)
                        /\ workers[w].pin = p
                        /\ Matches(workers[w].trigger, edge)
                     THEN [workers[w] EXCEPT !.ready = TRUE]
                     ELSE workers[w]]
    /\ UNCHANGED <<lifeVars, pinVars, sync_interrupts, cache,
                   async_interrupts, call, ret>>

\* Worker loop: the line-event handle is ready; drain it, invoke the callback
WorkerWakes(w) ==
    /\ workers[w].st = "wait"
    /\ workers[w].ready
    /\ workers' = [workers EXCEPT ![w].st = "cb", ![w].ready = FALSE]
    /\ UNCHANGED <<lifeVars, pinVars, loopVars, async_interrupts, call, ret, nedges>>

\* The callback returns; the worker waits again
WorkerCallbackReturns(w) ==
    /\ workers[w].st = "cb"
    /\ workers' = [workers EXCEPT ![w].st = "wait"]
    /\ UNCHANGED <<lifeVars, pinVars, loopVars, async_interrupts, call, ret, nedges>>

\* The callback panics; the thread ends abnormally
WorkerCallbackPanics(w) ==
    /\ workers[w].st = "cb"
    /\ workers' = [workers EXCEPT ![w].st = "panicked", ![w].ready = FALSE]
    /\ UNCHANGED <<lifeVars, pinVars, loopVars, async_interrupts, call, ret, nedges>>

\* Worker loop: the stop handle is ready; the thread exits
WorkerStops(w) ==
    /\ workers[w].st = "wait"
    /\ workers[w].stop
    /\ workers' = [workers EXCEPT ![w].st = "exited", ![w].ready = FALSE]
    /\ UNCHANGED <<lifeVars, pinVars, loopVars, async_interrupts, call, ret, nedges>>

(* ----------------------------- Gpio and InputPin: the interrupt methods *)
\* A &mut self method of the thread's Gpio can be called
GpioCall(t) == pc[t] = "live" /\ Unborrowed(t) /\ Ready(t)

\* A &mut self method of the thread's InputPin of pin p can be called
PinCall(t, p) == guard[t][p] # NoGuard /\ guard[t][p].kind = "in" /\ Ready(t)

\* InputPin.async_interrupt of the guard of pin p, if there is one
GuardAsync(t, p) ==
    IF guard[t][p] = NoGuard THEN 0 ELSE guard[t][p].async_interrupt

\* Gpio::clear_async_interrupt / InputPin::clear_async_interrupt, up to the
\* join inside stop(): take() the interrupt out of its slot
\* (Gpio.async_interrupts[pin] for via = "gpio", InputPin.async_interrupt for
\* via = "pin") and call stop() on it. The caller op resumes in its Finish
\* action when the join returns. In the call record, had is what the slot
\* held when the call started and w is the interrupt stop() was called on.
SlotOf(t, via, p) ==
    IF via = "gpio" THEN async_interrupts[t][p] ELSE GuardAsync(t, p)

\* A faulty variant of TakeAndStop: the interrupt is taken out of the slot
\* and let go without stop().
TakeNoStop(t, via, p, op, trigger) ==
    /\ call' = [call EXCEPT ![t] = [op |-> op, via |-> via, pin |-> p,
                                    trigger |-> trigger,
                                    had |-> SlotOf(t, via, p), w |-> 0]]
    /\ UNCHANGED workers
    /\ IF via = "gpio"
       THEN /\ async_interrupts' = [async_interrupts EXCEPT ![t][p] = 0]
            /\ UNCHANGED guard
       ELSE /\ guard' = [guard EXCEPT ![t][p].async_interrupt = 0]
            /\ UNCHANGED async_interrupts

TakeAndStop(t, via, p, op, trigger) ==
    LET w == SlotOf(t, via, p)
    IN  /\ call' = [call EXCEPT ![t] = [op |-> op, via |-> via, pin |-> p,
                                        trigger |-> trigger,
                                        had |-> w, w |-> w]]
        /\ workers' = SignalStop(workers, w)
        /\ IF via = "gpio"
           THEN /\ async_interrupts' = [async_interrupts EXCEPT ![t][p] = 0]
                /\ UNCHANGED guard
           ELSE /\ guard' = [guard EXCEPT ![t][p].async_interrupt = 0]
                /\ UNCHANGED async_interrupts

\* assert_pin!(pin): the index is outside the pin table
InvalidPin(p) == p >= GPIO_MAX_PINS

\* A faulty variant of ReturnInvalidPin: the index is checked only after the
\* call has discarded the cached edges.
ReturnInvalidPin_late(t, op, p) ==
    /\ ret' = [ret EXCEPT ![t] = Ret(op, p, "InvalidPin")]
    /\ cache' = [cache EXCEPT ![t] = [q \in Pins |-> NoEdge]]
    /\ UNCHANGED <<lifeVars, pinVars, sync_interrupts, fdq, async_interrupts,
                   workers, call, nedges>>

\* assert_pin!(pin): return Err(Error::InvalidPin(pin)), first thing in op
ReturnInvalidPin(t, op, p) ==
    /\ ret' = [ret EXCEPT ![t] = Ret(op, p, "InvalidPin")]
    /\ UNCHANGED <<lifeVars, pinVars, loopVars, async_interrupts, workers,
                   call, nedges>>

\* Gpio::set_interrupt: assert_pin!(pin); clear_async_interrupt(pin)? ...
GpioSetInterrupt(t, p, trigger) ==
    /\ GpioCall(t)
    /\ IF InvalidPin(p)
       THEN ReturnInvalidPin(t, "set_interrupt", p)
       ELSE /\ TakeAndStop(t, "gpio", p, "set_interrupt", trigger)
            /\ UNCHANGED <<lifeVars, regs, wrote, loopVars, ret, nedges>>

\* InputPin::set_interrupt: clear_async_interrupt()? ...
PinSetInterrupt(t, p, trigger) ==
    /\ PinCall(t, p)
    /\ TakeAndStop(t, "pin", p, "set_interrupt", trigger)
    /\ UNCHANGED <<lifeVars, regs, wrote, loopVars, ret, nedges>>

\* What set_interrupt returned: Ok(()); was and had are history, the trigger
\* the pin had armed and the edge it had cached when the event loop's
\* set_interrupt started
SetRet(t, p) ==
    [op |-> "set_interrupt", pin |-> p, res |-> "Ok", edge |-> NoEdge,
     waited |-> FALSE, was |-> sync_interrupts[LoopOf(t)][p],
     had |-> cache[LoopOf(t)][p]]

\* A faulty variant of GpioClearInterrupt: Ok(()) is returned without the
\* call of the event loop's clear_interrupt.
GpioClearInterrupt_noop(t, p) ==
    /\ GpioCall(t)
    /\ ret' = [ret EXCEPT ![t] = Ret("clear_interrupt", p, "Ok")]
    /\ UNCHANGED <<lifeVars, pinVars, loopVars, async_interrupts, workers,
                   call, nedges>>

\* ... then sync_interrupts.set_interrupt(pin, trigger)
FinishSetInterrupt(t) ==
    /\ call[t] # Idle /\ call[t].op = "set_interrupt"
    /\ Joined(call[t].w) /\ ~Panicked(call[t].w)
    /\ ~LoopLocked(LoopOf(t))
    /\ workers' = Reaped(call[t].w)
    /\ LoopSetInterrupt(t, call[t].pin, call[t].trigger)
    /\ ret' = [ret EXCEPT ![t] = SetRet(t, call[t].pin)]
    /\ call' = [call EXCEPT ![t] = Idle]
    /\ UNCHANGED <<lifeVars, pinVars, async_interrupts, nedges>>

\* Gpio::clear_interrupt
GpioClearInterrupt(t, p) ==
    /\ GpioCall(t)
    /\ IF InvalidPin(p)
       THEN ReturnInvalidPin(t, "clear_interrupt", p)
       ELSE /\ LoopClearInterrupt(t, p)
            /\ ret' = [ret EXCEPT ![t] = Ret("clear_interrupt", p, "Ok")]
            /\ UNCHANGED <<lifeVars, pinVars, async_interrupts, workers,
                           call, nedges>>

\* InputPin::clear_interrupt
PinClearInterrupt(t, p) ==
    /\ PinCall(t, p)
    /\ ~LoopLocked(LoopOf(t))
    /\ LoopClearInterrupt(t, p)
    /\ ret' = [ret EXCEPT ![t] = Ret("clear_interrupt", p, "Ok")]
    /\ UNCHANGED <<lifeVars, pinVars, async_interrupts, workers, call, nedges>>

\* Gpio::set_async_interrupt: clear_interrupt(pin)?;
\* clear_async_interrupt(pin)? ...
GpioSetAsyncInterrupt(t, p, trigger) ==
    /\ GpioCall(t)
    /\ IF InvalidPin(p)
       THEN ReturnInvalidPin(t, "set_async_interrupt", p)
       ELSE /\ LoopClearInterrupt(t, p)
            /\ TakeAndStop(t, "gpio", p, "set_async_interrupt", trigger)
            /\ UNCHANGED <<lifeVars, regs, wrote, ret, nedges>>

\* InputPin::set_async_interrupt: clear_interrupt()?;
\* clear_async_interrupt()? ...
PinSetAsyncInterrupt(t, p, trigger) ==
    /\ PinCall(t, p)
    /\ ~LoopLocked(LoopOf(t))
    /\ LoopClearInterrupt(t, p)
    /\ TakeAndStop(t, "pin", p, "set_async_interrupt", trigger)
    /\ UNCHANGED <<lifeVars, regs, wrote, ret, nedges>>

\* ... then the slot takes Some(AsyncInterrupt::new(..)?)
FinishSetAsyncInterrupt(t) ==
    /\ call[t] # Idle /\ call[t].op = "set_async_interrupt"
    /\ Joined(call[t].w) /\ ~Panicked(call[t].w)
    /\ \E w \in Wids : Reaped(call[t].w)[w].st = "free"
    /\ LET W == Reaped(call[t].w)
           w == FreshWid(W)
       IN  /\ workers' = Spawn(W, w, call[t].pin, call[t].trigger)
           /\ IF call[t].via = "gpio"
              THEN /\ async_interrupts' =
                         [async_interrupts EXCEPT ![t][call[t].pin] = w]
                   /\ UNCHANGED guard
              ELSE /\ guard' = [guard EXCEPT ![t][call[t].pin].async_interrupt = w]
                   /\ UNCHANGED async_interrupts
    /\ ret' = [ret EXCEPT ![t] = Ret("set_async_interrupt", call[t].pin, "Ok")]
    /\ call' = [call EXCEPT ![t] = Idle]
    /\ UNCHANGED <<lifeVars, regs, wrote, loopVars, nedges>>

\* ... or AsyncInterrupt::new fails and the slot stays None
FinishSetAsyncInterruptFails(t) ==
    /\ call[t] # Idle /\ call[t].op = "set_async_interrupt"
    /\ Joined(call[t].w) /\ ~Panicked(call[t].w)
    /\ workers' = Reaped(call[t].w)
    /\ ret' = [ret EXCEPT ![t] = Ret("set_async_interrupt", call[t].pin, "Io")]
    /\ call' = [call EXCEPT ![t] = Idle]
    /\ UNCHANGED <<lifeVars, pinVars, loopVars, async_interrupts, nedges>>

\* Gpio::clear_async_interrupt
GpioClearAsyncInterrupt(t, p) ==
    /\ GpioCall(t)
    /\ IF InvalidPin(p)
       THEN ReturnInvalidPin(t, "clear_async_interrupt", p)
       ELSE /\ TakeAndStop(t, "gpio", p, "clear_async_interrupt", "Disabled")
            /\ UNCHANGED <<lifeVars, regs, wrote, loopVars, ret, nedges>>

\* InputPin::clear_async_interrupt
PinClearAsyncInterrupt(t, p) ==
    /\ PinCall(t, p)
    /\ TakeAndStop(t, "pin", p, "clear_async_interrupt", "Disabled")
    /\ UNCHANGED <<lifeVars, regs, wrote, loopVars, ret, nedges>>

\* ... Ok(()) once stop() has returned
FinishClearAsyncInterrupt(t) ==
    /\ call[t] # Idle /\ call[t].op = "clear_async_interrupt"
    /\ Joined(call[t].w) /\ ~Panicked(call[t].w)
    /\ workers' = Reaped(call[t].w)
    /\ ret' = [ret EXCEPT ![t] = Ret("clear_async_interrupt", call[t].pin, "Ok")]
    /\ call' = [call EXCEPT ![t] = Idle]
    /\ UNCHANGED <<lifeVars, pinVars, loopVars, async_interrupts, nedges>>

\* A faulty variant of FinishThreadPanic: the error is returned and the
\* interrupt's handles stay open.
FinishThreadPanic_leak(t) ==
    /\ call[t] # Idle
    /\ call[t].op \in {"set_interrupt", "set_async_interrupt",
                       "clear_async_interrupt"}
    /\ Panicked(call[t].w)
    /\ ret' = [ret EXCEPT ![t] = Ret(call[t].op, call[t].pin, "ThreadPanic")]
    /\ call' = [call EXCEPT ![t] = Idle]
    /\ UNCHANGED <<lifeVars, pinVars, loopVars, async_interrupts, workers,
                   nedges>>

\* interrupt.stop()? returns ThreadPanic: the calling method returns it
FinishThreadPanic(t) ==
    /\ call[t] # Idle
    /\ call[t].op \in {"set_interrupt", "set_async_interrupt",
                       "clear_async_interrupt"}
    /\ Panicked(call[t].w)
    /\ workers' = Reaped(call[t].w)
    /\ ret' = [ret EXCEPT ![t] = Ret(call[t].op, call[t].pin, "ThreadPanic")]
    /\ call' = [call EXCEPT ![t] = Idle]
    /\ UNCHANGED <<lifeVars, pinVars, loopVars, async_interrupts, nedges>>

\* The async interrupt the handle's teardown stops next: Vec drops its
\* elements in index order
NextToStop(t, ws) ==
    IF ws = {} THEN 0
    ELSE CHOOSE w \in ws : \A v \in ws : workers[w].pin <= workers[v].pin

\* The Gpio goes out of scope (or cleanup(self) returns) with interrupts
\* registered: Drop for Gpio runs as in DropGpio, then the fields are
\* dropped: sync_interrupts (every registration of the event loop is
\* disarmed), then async_interrupts, whose elements are stopped one after
\* the other. The call record keeps the workers still to stop (left) and,
\* as history, the pins that were armed and the workers that were
\* registered.
DropGpioArmed(t) ==
    /\ pc[t] = "live"
    /\ Unborrowed(t) /\ Ready(t) /\ ~Disarmed(t)
    /\ gpio' = [gpio EXCEPT ![t] = drop_Gpio(@)]
    /\ GPIO_INSTANCED' = drop_Gpio_flag
    /\ pc' = [pc EXCEPT ![t] = "idle"]
    /\ sync_interrupts' = [sync_interrupts EXCEPT
                              ![t] = [p \in Pins |-> "Disabled"]]
    /\ fdq' = [fdq EXCEPT ![t] = [p \in Pins |-> <<>>]]
    /\ cache' = [cache EXCEPT ![t] = [p \in Pins |-> NoEdge]]
    /\ LET ws == {async_interrupts[t][p] : p \in Pins} \ {0}
           w == NextToStop(t, ws)
       IN  /\ workers' = SignalStop(workers, w)
           /\ call' = [call EXCEPT ![t] =
                         [op |-> "drop_gpio", w |-> w, left |-> ws \ {w},
                          armed |-> {p \in Pins :
                                        sync_interrupts[t][p] # "Disabled"},
                          registered |-> ws]]
    /\ async_interrupts' = [async_interrupts EXCEPT ![t] = [p \in Pins |-> 0]]
    /\ UNCHANGED <<lastNew, orig, pinVars, ret, nedges>>

\* ... the join of the interrupt being stopped returns (with any result);
\* the next one is stopped, or the teardown is over
FinishDropGpio(t) ==
    /\ call[t] # Idle /\ call[t].op = "drop_gpio"
    /\ Joined(call[t].w)
    /\ LET w == NextToStop(t, call[t].left)
       IN  /\ workers' = SignalStop(Reaped(call[t].w), w)
           /\ IF call[t].left = {}
              THEN /\ call' = [call EXCEPT ![t] = Idle]
                   /\ ret' = [ret EXCEPT ![t] =
                                [op |-> "drop_gpio", pin |-> 0, res |-> "Ok",
                                 edge |-> NoEdge, waited |-> FALSE,
                                 armed |-> call[t].armed,
                                 registered |-> call[t].registered]]
              ELSE /\ call' = [call EXCEPT ![t] =
                                 [@ EXCEPT !.w = w, !.left = @ \ {w}]]
                   /\ UNCHANGED ret
    /\ UNCHANGED <<lifeVars, pinVars, loopVars, async_interrupts, nedges>>

\* A faulty variant of FinishDropInputPin: the scope exit also removes the
\* pin's synchronous registration and its cached edge.
FinishDropInputPin_disarm(t) ==
    /\ call[t] # Idle /\ call[t].op = "drop"
    /\ Joined(call[t].w)
    /\ workers' = Reaped(call[t].w)
    /\ regs' = DropGuardRegs(regs, call[t].pin, guard[t][call[t].pin])
    /\ wrote' = DropGuardWrites(guard[t][call[t].pin])
    /\ guard' = [guard EXCEPT ![t][call[t].pin] = NoGuard]
    /\ call' = [call EXCEPT ![t] = Idle]
    /\ sync_interrupts' =
          [sync_interrupts EXCEPT ![LoopOf(t)][call[t].pin] = "Disabled"]
    /\ fdq' = [fdq EXCEPT ![LoopOf(t)][call[t].pin] = <<>>]
    /\ cache' = [cache EXCEPT ![LoopOf(t)][call[t].pin] = NoEdge]
    /\ UNCHANGED <<lifeVars, async_interrupts, ret, nedges>>

\* The guard goes out of scope: Drop for InputPin,
\* let _ = self.clear_async_interrupt() ...
DropInputPin(t, p) ==
    /\ PinCall(t, p)
    /\ TakeAndStop(t, "pin", p, "drop", "Disabled")
    /\ UNCHANGED <<lifeVars, regs, wrote, loopVars, ret, nedges>>

\* ... then the mode is restored, whatever stop() returned
FinishDropInputPin(t) ==
    /\ call[t] # Idle /\ call[t].op = "drop"
    /\ Joined(call[t].w)
    /\ workers' = Reaped(call[t].w)
    /\ regs' = DropGuardRegs(regs, call[t].pin, guard[t][call[t].pin])
    /\ wrote' = DropGuardWrites(guard[t][call[t].pin])
    /\ guard' = [guard EXCEPT ![t][call[t].pin] = NoGuard]
    /\ call' = [call EXCEPT ![t] = Idle]
    /\ UNCHANGED <<lifeVars, loopVars, async_interrupts, ret, nedges>>

\* What a poll of one pin returned: its Option<Level>, whether it waited on
\* the multiplexer, its reset argument, and the edge the pin had cached when
\* the call started
PollRet(t, p, reset, o) ==
    [op |-> "poll_interrupt", pin |-> p, res |-> o.res, edge |-> o.edge,
     waited |-> o.waited, reset |-> reset, had |-> cache[LoopOf(t)][p]]

\* A faulty variant of Gpio::poll_interrupt: the reset argument is not
\* passed on, the poll runs with reset = false.
GpioPollInterrupt_noreset(t, p, reset, timeout) ==
    /\ pc[t] = "live" /\ Unborrowed(t) /\ Ready(t)
    /\ \E o \in LoopPoll(t, {p}, FALSE, timeout) :
          /\ cache' = [cache EXCEPT ![t] = o.cache]
          /\ fdq' = [fdq EXCEPT ![t] = o.fdq]
          /\ ret' = [ret EXCEPT ![t] = PollRet(t, p, reset, o)]
    /\ UNCHANGED <<lifeVars, pinVars, sync_interrupts, async_interrupts,
                   workers, call, nedges>>

\* Gpio::poll_interrupt(pin, reset, timeout):
\* poll_interrupts(&[pin], reset, timeout)
GpioPollInterrupt(t, p, reset, timeout) ==
    /\ GpioCall(t)
    /\ IF InvalidPin(p)
       THEN ReturnInvalidPin(t, "poll_interrupt", p)
       ELSE /\ \E o \in LoopPoll(t, {p}, reset, timeout) :
                  /\ cache' = [cache EXCEPT ![t] = o.cache]
                  /\ fdq' = [fdq EXCEPT ![t] = o.fdq]
                  /\ ret' = [ret EXCEPT ![t] = PollRet(t, p, reset, o)]
            /\ UNCHANGED <<lifeVars, pinVars, sync_interrupts,
                           async_interrupts, workers, call, nedges>>

\* The pins of a slice
Range(ps) == {ps[i] : i \in DOMAIN ps}

\* for pin in pins { assert_pin!(*pin) }: the first index of the slice that
\* is outside the pin table
FirstInvalid(ps) ==
    ps[CHOOSE i \in DOMAIN ps :
          /\ InvalidPin(ps[i])
          /\ \A j \in DOMAIN ps : InvalidPin(ps[j]) => i <= j]

\* What a poll of a pin slice returned: its Option<(u8, Level)>, whether it
\* waited on the multiplexer, its arguments, and the pins whose handles were
\* ready in the wake
PollsRet(t, ps, reset, o) ==
    [op |-> "poll_interrupts", pins |-> Range(ps), pin |-> o.pin,
     res |-> o.res, edge |-> o.edge, waited |-> o.waited, reset |-> reset,
     woke |-> IF o.waited THEN ReadyPins(t) ELSE {},
     had |-> cache[LoopOf(t)]]

\* A faulty variant of Gpio::poll_interrupts: with reset the cached edge of
\* every pin the poll has not just cached is discarded, requested or not.
GpioPollInterrupts_resetall(t, ps, reset, timeout) ==
    /\ pc[t] = "live" /\ Unborrowed(t) /\ Ready(t)
    /\ \E o \in LoopPoll(t, Range(ps), reset, timeout) :
          /\ cache' = [cache EXCEPT ![t] = [q \in Pins |->
                          IF reset /\ o.cache[q] = cache[t][q]
                          THEN NoEdge ELSE o.cache[q]]]
          /\ fdq' = [fdq EXCEPT ![t] = o.fdq]
          /\ ret' = [ret EXCEPT ![t] = PollsRet(t, ps, reset, o)]
    /\ UNCHANGED <<lifeVars, pinVars, sync_interrupts, async_interrupts,
                   workers, call, nedges>>

\* A faulty variant of Gpio::poll_interrupts: only the first pin of the
\* slice is passed on to the event loop.
GpioPollInterrupts_first(t, ps, reset, timeout) ==
    /\ pc[t] = "live" /\ Unborrowed(t) /\ Ready(t)
    /\ \E o \in LoopPoll(t, {ps[1]}, reset, timeout) :
          /\ cache' = [cache EXCEPT ![t] = o.cache]
          /\ fdq' = [fdq EXCEPT ![t] = o.fdq]
          /\ ret' = [ret EXCEPT ![t] = PollsRet(t, ps, reset, o)]
    /\ UNCHANGED <<lifeVars, pinVars, sync_interrupts, async_interrupts,
                   workers, call, nedges>>

\* Gpio::poll_interrupts(pins, reset, timeout): assert_pin! on every pin of
\* the slice, then sync_interrupts.poll(pins, reset, timeout)
GpioPollInterrupts(t, ps, reset, timeout) ==
    /\ GpioCall(t)
    /\ IF \E i \in DOMAIN ps : InvalidPin(ps[i])
       THEN ReturnInvalidPin(t, "poll_interrupts", FirstInvalid(ps))
       ELSE /\ \E o \in LoopPoll(t, Range(ps), reset, timeout) :
                  /\ cache' = [cache EXCEPT ![t] = o.cache]
                  /\ fdq' = [fdq EXCEPT ![t] = o.fdq]
                  /\ ret' = [ret EXCEPT ![t] = PollsRet(t, ps, reset, o)]
            /\ UNCHANGED <<lifeVars, pinVars, sync_interrupts,
                           async_interrupts, workers, call, nedges>>

\* InputPin::poll_interrupt(reset, timeout):
\* event_loop.poll(&[pin], reset, timeout)
PinPollInterrupt(t, p, reset, timeout) ==
    /\ PinCall(t, p)
    /\ ~LoopLocked(LoopOf(t))
    /\ \E o \in LoopPoll(t, {p}, reset, timeout) :
          /\ cache' = [cache EXCEPT ![LoopOf(t)] = o.cache]
          /\ fdq' = [fdq EXCEPT ![LoopOf(t)] = o.fdq]
          /\ ret' = [ret EXCEPT ![t] = PollRet(t, p, reset, o)]
    /\ UNCHANGED <<lifeVars, pinVars, sync_interrupts, async_interrupts,
                   workers, call, nedges>>

\* InputPin::poll_interrupt that has to wait: the event loop's mutex is
\* taken, reset discards the pin's cached edge, no edge is cached, and the
\* thread blocks in the multiplexer's wait with the mutex held.
PinPollWaits(t, p, reset, timeout) ==
    /\ PinCall(t, p)
    /\ ~LoopLocked(LoopOf(t))
    /\ (reset \/ cache[LoopOf(t)][p] = NoEdge)
    /\ cache' = [cache EXCEPT ![LoopOf(t)][p] = NoEdge]
    /\ call' = [call EXCEPT ![t] =
                  [op |-> "poll", via |-> "pin", pin |-> p, reset |-> reset,
                   timeout |-> timeout, had |-> cache[LoopOf(t)][p]]]
    /\ UNCHANGED <<lifeVars, pinVars, sync_interrupts, fdq, async_interrupts,
                   workers, ret, nedges>>

\* ... the wait ends, on a ready handle or on the timeout; the poll returns
\* and the mutex is released.
PinPollWakes(t) ==
    /\ call[t] # Idle /\ call[t].op = "poll"
    /\ \E o \in LoopPoll(t, {call[t].pin}, FALSE, call[t].timeout) :
          /\ cache' = [cache EXCEPT ![LoopOf(t)] = o.cache]
          /\ fdq' = [fdq EXCEPT ![LoopOf(t)] = o.fdq]
          /\ ret' = [ret EXCEPT ![t] =
                       [PollRet(t, call[t].pin, call[t].reset, o)
                          EXCEPT !.had = call[t].had]]
    /\ call' = [call EXCEPT ![t] = Idle]
    /\ UNCHANGED <<lifeVars, pinVars, sync_interrupts, async_interrupts,
                   workers, nedges>>

(* ------------------------------------------------- pin levels: the bus *)
\* a | b and a & !b on register words
RECURSIVE BitOr(_, _)
BitOr(a, b) ==
    IF a = 0 THEN b
    ELSE IF b = 0 THEN a
    ELSE (IF a % 2 = 1 \/ b % 2 = 1 THEN 1 ELSE 0)
            + 2 * BitOr(a \div 2, b \div 2)

RECURSIVE BitAndNot(_, _)
BitAndNot(a, b) ==
    IF a = 0 THEN 0
    ELSE (IF a % 2 = 1 /\ b % 2 = 0 THEN 1 ELSE 0)
            + 2 * BitAndNot(a \div 2, b \div 2)

\* reg_value & (1 << n) > 0
BitSet(v, n) == (v \div Pow2(n)) % 2 = 1

\* The peripheral's answer to a write of v to word o: a write to a set word
\* raises, and a write to a clear word lowers, the levels of the pins whose
\* bits are 1 in v; the level word shows the levels.
BusWrite(r, o, v) ==
    LET k == IF o >= GPIO_OFFSET_GPCLR
             THEN o - GPIO_OFFSET_GPCLR ELSE o - GPIO_OFFSET_GPSET
        lev == GPIO_OFFSET_GPLEV + k
    IN  IF o >= GPIO_OFFSET_GPCLR
        THEN [r EXCEPT ![lev] = BitAndNot(@, v)]
        ELSE [r EXCEPT ![lev] = BitOr(@, v)]

\* InputPin::read: the level bit of the pin in its level word
ReadLevel(r, p) ==
    IF BitSet(r[LevWord(p)], p % 32) THEN "High" ELSE "Low"

\* A faulty variant of OutputPinWrite: the word index pin / 32 is left out.
OutputPinWrite_word0(t, p, level) ==
    /\ guard[t][p] # NoGuard /\ guard[t][p].kind = "out" /\ Ready(t)
    /\ regs' = BusWrite(regs,
                        IF level = "Low" THEN GPIO_OFFSET_GPCLR
                                         ELSE GPIO_OFFSET_GPSET,
                        Pow2(p % 32))
    /\ UNCHANGED <<lifeVars, guard, wrote, irqVars>>

\* OutputPin::write(level) (set_low, set_high): 1 << (pin % 32) into the
\* clear or set word of the pin
OutputPinWrite(t, p, level) ==
    /\ guard[t][p] # NoGuard /\ guard[t][p].kind = "out" /\ Ready(t)
    /\ regs' = BusWrite(regs,
                        IF level = "Low"
                        THEN GPIO_OFFSET_GPCLR + (p \div 32)
                        ELSE GPIO_OFFSET_GPSET + (p \div 32),
                        Pow2(p % 32))
    /\ UNCHANGED <<lifeVars, guard, wrote, irqVars>>

\* InputPin::read
InputPinRead(t, p) ==
    /\ PinCall(t, p)
    /\ ret' = [ret EXCEPT ![t] = Ret("read", p, ReadLevel(regs, p))]
    /\ UNCHANGED <<lifeVars, pinVars, loopVars, async_interrupts, workers,
                   call, nedges>>

(* ------------------------------------------------------- set_pullupdown *)
\* enum PullUpDown: Off = 0b00, PullDown = 0b01, PullUp = 0b10
PullDown == 1
PullUp == 2
PullUpDowns == 0..2

\* Some thread's Gpio is live: threads that share it can call its &self
\* methods and lock its pins.
HandleLive == \E h \in Threads : pc[h] = "live"

\* A thread is inside a set_pullupdown
InPud(u) == call[u] # Idle /\ call[u].op = "set_pullupdown"

\* Gpio::set_pullupdown holds the gpio_mem mutex from its first register
\* access to its return
MemLocked == \E u \in Threads : InPud(u) /\ call[u].via = "gpio"

\* The pin's mutex is held: by an accessor inside Pin::set_pullupdown, or by
\* the accessor an input or output guard borrows
PinLocked(p) ==
    \E u \in Threads :
        \/ guard[u][p] # NoGuard
        \/ InPud(u) /\ call[u].via = "pin" /\ call[u].pin = p

\* (reg_value & !0b11) | (pud & 0b11)
PudSetCode(v, pud) == v - (v % 4) + (pud % 4)

\* A faulty variant of PudClearCode: the whole register is cleared.
PudClearCode_all(v) == 0

\* reg_value & !0b11
PudClearCode(v) == v - (v % 4)

\* set_pullupdown, up to the set-up sleep: read GPPUD, write the control
\* code into it. The call record keeps the value GPPUD had at the start, the
\* writes made so far as <<offset, value>>, and (once the clock is pulsed)
\* the control code the hardware clocks into the pin.
PudStart(t, via, p, pud) ==
    LET v == PudSetCode(regs[GPIO_OFFSET_GPPUD], pud)
    IN  /\ regs' = [regs EXCEPT ![GPIO_OFFSET_GPPUD] = v]
        /\ call' = [call EXCEPT ![t] =
                      [op |-> "set_pullupdown", via |-> via, pin |-> p,
                       pud |-> pud, step |-> 2,
                       before |-> regs[GPIO_OFFSET_GPPUD],
                       writes |-> <<<<GPIO_OFFSET_GPPUD, v>>>>,
                       latched |-> -1]]
        /\ UNCHANGED <<lifeVars, guard, wrote, loopVars, async_interrupts,
                       workers, ret, nedges>>

\* Gpio::set_pullupdown(&self, pin, pud): assert_pin!, lock gpio_mem, ...
GpioSetPullUpDown(t, p, pud) ==
    /\ HandleLive /\ Ready(t)
    /\ IF InvalidPin(p)
       THEN ReturnInvalidPin(t, "set_pullupdown", p)
       ELSE /\ ~MemLocked
            /\ PudStart(t, "gpio", p, pud)

\* Pin::set_pullupdown(&self, pud) on the accessor get_pin(pin) returned
PinSetPullUpDown(t, p, pud) ==
    /\ HandleLive /\ Ready(t)
    /\ ~InvalidPin(p)
    /\ ~PinLocked(p)
    /\ PudStart(t, "pin", p, pud)

\* set_pullupdown after a sleep: the next register access of the sequence.
\* 2: clock the control signal into the pin; 3: read GPPUD, remove the
\* control signal; 4: remove the clock, return Ok(()).
PudStep(t) ==
    /\ InPud(t)
    /\ LET c == call[t]
           o == IF c.step = 3 THEN GPIO_OFFSET_GPPUD ELSE PudClkWord(c.pin)
           v == IF c.step = 2 THEN Pow2(c.pin % 32)
                ELSE IF c.step = 3 THEN PudClearCode(regs[GPIO_OFFSET_GPPUD])
                ELSE 0
           c2 == [c EXCEPT !.step = @ + 1,
                           !.writes = Append(@, <<o, v>>),
                           !.latched = IF c.step = 2
                                       THEN regs[GPIO_OFFSET_GPPUD] % 4 ELSE @]
       IN  /\ regs' = [regs EXCEPT ![o] = v]
           /\ IF c.step < 4
              THEN /\ call' = [call EXCEPT ![t] = c2]
                   /\ UNCHANGED ret
              ELSE /\ call' = [call EXCEPT ![t] = Idle]
                   /\ ret' = [ret EXCEPT ![t] =
                                [op |-> "set_pullupdown", pin |-> c.pin,
                                 res |-> "Ok", edge |-> NoEdge,
                                 waited |-> FALSE, pud |-> c.pud,
                                 before |-> c.before, writes |-> c2.writes,
                                 latched |-> c.latched]]
    /\ UNCHANGED <<lifeVars, guard, wrote, loopVars, async_interrupts,
                   workers, nedges>>

\* Gpio::get_pin(&self, pin): None for an index outside the pin table,
\* otherwise the pin's accessor (here dropped again at once)
GetPin(t, p) ==
    /\ HandleLive /\ Ready(t)
    /\ IF InvalidPin(p) THEN TRUE ELSE ~PinLocked(p)
    /\ ret' = [ret EXCEPT ![t] =
                 Ret("get_pin", p, IF InvalidPin(p) THEN "None" ELSE "Some")]
    /\ UNCHANGED <<lifeVars, pinVars, loopVars, async_interrupts, workers,
                   call, nedges>>

(* ------------------- guards on a handle shared by reference, by register
   access: Pin::set_mode reads the function-select word and writes it back
   through gpio_mem, an Arc<GpioMem> with no lock *)
\* Pin::set_mode(mode) on pin p has been entered and has read nothing yet;
\* drops tells that it is the set_mode of the guard's scope exit.
SetModeCall(p, mode, drops) ==
    [op |-> "set_mode", pin |-> p, mode |-> mode, drops |-> drops,
     stage |-> "read", word |-> 0]

\* get_pin(p) locks the pin's mutex; InputPin::new / OutputPin::new reads
\* pin.mode() and enters set_mode(mode) unless the pin has the mode.
NewGuardStart(t, p, kind, mode) ==
    /\ HandleLive /\ Ready(t)
    /\ ~PinLocked(p)
    /\ guard' = [guard EXCEPT ![t][p] = NewGuard(kind, mode, PinMode(regs, p))]
    /\ call' = [call EXCEPT ![t] = IF NewGuardWrites(regs, p, mode)
                                   THEN SetModeCall(p, mode, FALSE) ELSE Idle]
    /\ wrote' = FALSE
    /\ UNCHANGED <<lifeVars, regs, loopVars, async_interrupts, workers, ret,
                   nedges>>

\* The guard goes out of scope. Drop for InputPin finds no async worker, and
\* both Drop impls enter set_mode(prev_mode) unless suppressed or nothing was
\* captured.
DropGuardStart(t, p) ==
    /\ guard[t][p] # NoGuard /\ Ready(t)
    /\ guard[t][p].async_interrupt = 0
    /\ IF DropGuardWrites(guard[t][p])
       THEN /\ call' = [call EXCEPT ![t] =
                          SetModeCall(p, guard[t][p].prev_mode, TRUE)]
            /\ UNCHANGED guard
       ELSE /\ guard' = [guard EXCEPT ![t][p] = NoGuard]
            /\ UNCHANGED call
    /\ wrote' = FALSE
    /\ UNCHANGED <<lifeVars, regs, loopVars, async_interrupts, workers, ret,
                   nedges>>

\* Pin::set_mode: let reg_value = (*self.gpio_mem).read(reg_addr)
SetModeRead(t) ==
    /\ call[t].op = "set_mode"
    /\ call[t].stage = "read"
    /\ call' = [call EXCEPT ![t].stage = "write",
                            ![t].word = regs[FselWord(call[t].pin)]]
    /\ UNCHANGED <<lifeVars, pinVars, loopVars, async_interrupts, workers,
                   ret, nedges>>

\* Pin::set_mode: (*self.gpio_mem).write(reg_addr, reg_value with the pin's
\* field replaced); at a scope exit the guard is gone and the pin's mutex is
\* released.
SetModeWrite(t) ==
    /\ call[t].op = "set_mode"
    /\ call[t].stage = "write"
    /\ regs' = [regs EXCEPT ![FselWord(call[t].pin)] =
                  SetBits3(call[t].word, FselShift(call[t].pin), call[t].mode)]
    /\ wrote' = TRUE
    /\ guard' = IF call[t].drops
                THEN [guard EXCEPT ![t][call[t].pin] = NoGuard] ELSE guard
    /\ call' = [call EXCEPT ![t] = Idle]
    /\ UNCHANGED <<lifeVars, loopVars, async_interrupts, workers, ret, nedges>>

(* -------------------------------------------------------- specifications *)
\* Registers with every pin in mode m[p].
RECURSIVE RegsOf(_, _, _)
RegsOf(m, ps, r) ==
    IF ps = {} THEN r
    ELSE LET p == CHOOSE q \in ps : TRUE
         IN RegsOf(m, ps \ {p}, PinSetMode(r, p, m[p]))

ZeroRegs == [o \in RegOffsets |-> 0]

InitWith(starts) ==
    /\ GPIO_INSTANCED = FALSE
    /\ pc = [t \in Threads |-> "idle"]
    /\ gpio = [t \in Threads |-> NoGpio]
    /\ lastNew = [t \in Threads |-> "none"]
    /\ \E m \in [Pins -> starts] : regs = RegsOf(m, Pins, ZeroRegs)
    /\ orig = [t \in Threads |-> ZeroRegs]
    /\ guard = [t \in Threads |-> [p \in Pins |-> NoGuard]]
    /\ wrote = FALSE
    /\ sync_interrupts = [t \in Threads |-> [p \in Pins |-> "Disabled"]]
    /\ fdq = [t \in Threads |-> [p \in Pins |-> <<>>]]
    /\ cache = [t \in Threads |-> [p \in Pins |-> NoEdge]]
    /\ async_interrupts = [t \in Threads |-> [p \in Pins |-> 0]]
    /\ workers = [w \in Wids |-> FreeWorker]
    /\ call = [t \in Threads |-> Idle]
    /\ ret = [t \in Threads |-> NoRet]
    /\ nedges = 0

\* Gpio::new up to its compare_and_swap
Construct(t) ==
    \/ NewLoad(t)
    \/ NewFindDriverFails(t)
    \/ NewOpenFails(t)
    \/ NewEventLoopFails(t)
    \/ NewSwap(t)

Teardown(t) ==
    \/ \E b \in BOOLEAN : SetClearOnDrop(t, b)
    \/ Cleanup(t)
    \/ DropGpio(t)

\* Several threads construct and tear down handles concurrently.
InitNew == InitWith({Mode_Input})

NextNew == \E t \in Threads : Construct(t) \/ NewLostDrop(t) \/ Teardown(t)

SpecNew == InitNew /\ [][NextNew]_vars

\* One thread constructs the handle, creates and drops guards, tears the
\* handle down, and starts over. Alone, its compare_and_swap never finds the
\* flag claimed, so NewLostDrop has no part in it.
GuardOps(t) ==
    \E p \in Pins :
        \/ AsInput(t, p)
        \/ \E m \in OutModes : AsOutput(t, p, m)
        \/ \E b \in BOOLEAN : GuardSetClearOnDrop(t, p, b)
        \/ DropInputPin(t, p)
        \/ DropOutputPin(t, p)

InitPin == InitWith(StartModes)

NextPin ==
    \/ Construct(Main)
    \/ Teardown(Main)
    \/ GuardOps(Main)
    \/ FinishDropInputPin(Main)

SpecPin == InitPin /\ [][NextPin]_vars

\* The state right after Gpio::new returned the handle to the main thread.
InitLiveWith(r) ==
    /\ GPIO_INSTANCED = TRUE
    /\ pc = [t \in Threads |-> IF t = Main THEN "live" ELSE "idle"]
    /\ gpio = [t \in Threads |-> IF t = Main THEN NewGpio ELSE NoGpio]
    /\ lastNew = [t \in Threads |-> IF t = Main THEN "Ok" ELSE "none"]
    /\ regs = r
    /\ orig = [t \in Threads |-> IF t = Main THEN regs ELSE ZeroRegs]
    /\ guard = [t \in Threads |-> [p \in Pins |-> NoGuard]]
    /\ wrote = FALSE
    /\ sync_interrupts = [t \in Threads |-> [p \in Pins |-> "Disabled"]]
    /\ fdq = [t \in Threads |-> [p \in Pins |-> <<>>]]
    /\ cache = [t \in Threads |-> [p \in Pins |-> NoEdge]]
    /\ async_interrupts = [t \in Threads |-> [p \in Pins |-> 0]]
    /\ workers = [w \in Wids |-> FreeWorker]
    /\ call = [t \in Threads |-> Idle]
    /\ ret = [t \in Threads |-> NoRet]
    /\ nedges = 0

InitLive == InitLiveWith(RegsOf([p \in Pins |-> Mode_Input], Pins, ZeroRegs))

EdgeKinds == {"rising", "falling"}

\* Triggers armed in the runs below
ArmTriggers == {"RisingEdge", "Both"}

\* Triggers of the worker threads in the runs below
AsyncTriggers == {"FallingEdge"}

\* The main thread arms and clears synchronous and asynchronous interrupts,
\* through the handle and through input guards, while edges arrive and the
\* worker threads run.
NextIrq ==
    \/ \E p \in Pins :
        \/ AsInput(Main, p)
        \/ DropInputPin(Main, p)
        \/ \E g \in {"RisingEdge", "Disabled"} : GpioSetInterrupt(Main, p, g)
        \/ \E g \in {"RisingEdge", "Disabled"} : PinSetInterrupt(Main, p, g)
        \/ GpioClearInterrupt(Main, p)
        \/ PinClearInterrupt(Main, p)
        \/ \E g \in AsyncTriggers : GpioSetAsyncInterrupt(Main, p, g)
        \/ \E g \in AsyncTriggers : PinSetAsyncInterrupt(Main, p, g)
        \/ GpioClearAsyncInterrupt(Main, p)
        \/ PinClearAsyncInterrupt(Main, p)
        \/ \E e \in EdgeKinds : Edge(p, e)
    \/ FinishSetInterrupt(Main)
    \/ FinishSetAsyncInterrupt(Main)
    \/ FinishSetAsyncInterruptFails(Main)
    \/ FinishClearAsyncInterrupt(Main)
    \/ FinishThreadPanic(Main)
    \/ FinishDropInputPin(Main)
    \/ \E w \in Wids :
        \/ WorkerWakes(w)
        \/ WorkerCallbackReturns(w)
        \/ WorkerCallbackPanics(w)
        \/ WorkerStops(w)

SpecIrq == InitLive /\ [][NextIrq]_vars

\* The main thread arms synchronous interrupts and polls them, through the
\* handle and through input guards, while edges arrive.
NextPoll ==
    \/ \E p \in Pins :
        \/ AsInput(Main, p)
        \/ DropInputPin(Main, p)
        \/ \E g \in ArmTriggers : GpioSetInterrupt(Main, p, g)
        \/ \E g \in ArmTriggers : PinSetInterrupt(Main, p, g)
        \/ \E e \in EdgeKinds : Edge(p, e)
        \/ \E reset, timeout \in BOOLEAN :
              \/ GpioPollInterrupt(Main, p, reset, timeout)
              \/ PinPollInterrupt(Main, p, reset, timeout)
    \/ FinishSetInterrupt(Main)
    \/ FinishDropInputPin(Main)

SpecPoll == InitLive /\ [][NextPoll]_vars

\* Slices of one or two distinct pins
PinSlices ==
    {<<p>> : p \in Pins} \cup {ps \in Pins \X Pins : ps[1] # ps[2]}

\* The main thread arms synchronous interrupts through the handle and polls
\* pin sets with poll_interrupts while edges arrive.
NextPolls ==
    \/ \E p \in Pins :
        \/ \E g \in ArmTriggers : GpioSetInterrupt(Main, p, g)
        \/ \E e \in EdgeKinds : Edge(p, e)
    \/ FinishSetInterrupt(Main)
    \/ \E ps \in PinSlices, reset, timeout \in BOOLEAN :
          GpioPollInterrupts(Main, ps, reset, timeout)

SpecPolls == InitLive /\ [][NextPolls]_vars

\* Pin indexes outside the pin table (the argument is a u8)
BadPins == {GPIO_MAX_PINS, 255}

PinArgs == Pins \cup BadPins

\* Slices of one or two distinct indexes, valid or not
ArgSlices ==
    {<<p>> : p \in PinArgs} \cup {ps \in PinArgs \X PinArgs : ps[1] # ps[2]}

\* The main thread calls the handle's methods with valid and invalid pin
\* indexes while edges arrive.
NextArgs ==
    \/ \E p \in PinArgs :
        \/ GpioSetPullUpDown(Main, p, PullUp)
        \/ GpioSetInterrupt(Main, p, "RisingEdge")
        \/ GpioClearInterrupt(Main, p)
        \/ \E g \in AsyncTriggers : GpioSetAsyncInterrupt(Main, p, g)
        \/ GpioClearAsyncInterrupt(Main, p)
        \/ \E reset \in BOOLEAN : GpioPollInterrupt(Main, p, reset, TRUE)
        \/ GetPin(Main, p)
    \/ \E ps \in ArgSlices, reset \in BOOLEAN :
          GpioPollInterrupts(Main, ps, reset, TRUE)
    \/ \E p \in Pins : Edge(p, "rising")
    \/ PudStep(Main)
    \/ FinishSetInterrupt(Main)
    \/ FinishSetAsyncInterrupt(Main)
    \/ FinishClearAsyncInterrupt(Main)
    \/ \E w \in Wids : WorkerStops(w)

SpecArgs == InitLive /\ [][NextArgs]_vars

Levels == {"Low", "High"}

\* The main thread creates and drops input and output guards, writes levels
\* through the output guards and reads them through the input guards.
NextLevel ==
    \/ \E p \in Pins :
        \/ AsInput(Main, p)
        \/ AsOutput(Main, p, Mode_Output)
        \/ DropInputPin(Main, p)
        \/ DropOutputPin(Main, p)
        \/ \E l \in Levels : OutputPinWrite(Main, p, l)
        \/ InputPinRead(Main, p)
    \/ FinishDropInputPin(Main)

SpecLevel == InitLive /\ [][NextLevel]_vars

\* Values the pull-control register holds when the handle is constructed:
\* bits above the 2-bit control code may be set
PudStarts == {0, 4, 12}

InitPud ==
    \E v \in PudStarts :
        InitLiveWith([RegsOf([p \in Pins |-> Mode_Input], Pins, ZeroRegs)
                        EXCEPT ![GPIO_OFFSET_GPPUD] = v])

\* One thread configures pull resistors, through the handle and through
\* pin accessors, one call after the other.
NextPud ==
    \/ \E p \in Pins, pud \in PullUpDowns :
        \/ GpioSetPullUpDown(Main, p, pud)
        \/ PinSetPullUpDown(Main, p, pud)
    \/ PudStep(Main)

SpecPud == InitPud /\ [][NextPud]_vars

\* Every thread configures pull resistors through the shared handle and
\* through pin accessors; the calls of different threads may overlap.
\* The pull state a thread asks for in the runs below: PullDown and PullUp
\* in turn
PudOf(t) == IF t % 2 = Main % 2 THEN PullDown ELSE PullUp

NextPudShared ==
    \E t \in Threads :
        \/ \E p \in Pins :
            \/ GpioSetPullUpDown(t, p, PudOf(t))
            \/ PinSetPullUpDown(t, p, PudOf(t))
        \/ PudStep(t)

SpecPudShared == InitLive /\ [][NextPudShared]_vars

\* Timeouts of the polls in the runs below
PollTimeouts == BOOLEAN

\* Two threads hold input guards of pins of the main thread's handle and
\* arm, clear and poll synchronous interrupts through them while edges
\* arrive.
NextLoop ==
    \/ \E t \in Threads :
        \/ \E p \in Pins :
            \/ AsInput(t, p)
            \/ AsInputShared(t, p)
            \/ DropInputPin(t, p)
            \/ \E g \in {"RisingEdge", "Disabled"} : PinSetInterrupt(t, p, g)
            \/ PinClearInterrupt(t, p)
            \/ \E timeout \in PollTimeouts :
                  \/ PinPollInterrupt(t, p, FALSE, timeout)
                  \/ PinPollWaits(t, p, FALSE, timeout)
        \/ FinishSetInterrupt(t)
        \/ FinishDropInputPin(t)
        \/ PinPollWakes(t)
    \/ \E p \in Pins : Edge(p, "rising")

SpecLoop == InitLive /\ [][NextLoop]_vars

\* The main thread arms, re-arms, disarms and polls synchronous interrupts,
\* through the handle and through input guards, while edges arrive.
NextArm ==
    \/ \E p \in Pins :
        \/ AsInput(Main, p)
        \/ DropInputPin(Main, p)
        \/ \E g \in ArmTriggers \cup {"Disabled"} :
              \/ GpioSetInterrupt(Main, p, g)
              \/ PinSetInterrupt(Main, p, g)
        \/ GpioClearInterrupt(Main, p)
        \/ PinClearInterrupt(Main, p)
        \/ \E e \in EdgeKinds : Edge(p, e)
        \/ \E timeout \in BOOLEAN :
              \/ GpioPollInterrupt(Main, p, FALSE, timeout)
              \/ PinPollInterrupt(Main, p, FALSE, timeout)
    \/ FinishSetInterrupt(Main)
    \/ FinishDropInputPin(Main)

SpecArm == InitLive /\ [][NextArm]_vars

\* The runs of SpecIrq, ended by the teardown of the handle with whatever
\* is registered at that moment.
NextHandles ==
    \/ NextIrq
    \/ DropGpio(Main)
    \/ DropGpioArmed(Main)
    \/ FinishDropGpio(Main)

SpecHandles == InitLive /\ [][NextHandles]_vars

\* An edge a pin holds cached from a wake before the run starts
OldEdge == [level |-> "High", seq |-> 0]

\* The handle is live, every pin is armed for both edges and holds an
\* earlier edge in its cache or none.
InitCached ==
    /\ GPIO_INSTANCED = TRUE
    /\ pc = [t \in Threads |-> IF t = Main THEN "live" ELSE "idle"]
    /\ gpio = [t \in Threads |-> IF t = Main THEN NewGpio ELSE NoGpio]
    /\ lastNew = [t \in Threads |-> IF t = Main THEN "Ok" ELSE "none"]
    /\ regs = RegsOf([p \in Pins |-> Mode_Input], Pins, ZeroRegs)
    /\ orig = [t \in Threads |-> IF t = Main THEN regs ELSE ZeroRegs]
    /\ guard = [t \in Threads |-> [p \in Pins |-> NoGuard]]
    /\ wrote = FALSE
    /\ sync_interrupts = [t \in Threads |-> [p \in Pins |->
                            IF t = Main THEN "Both" ELSE "Disabled"]]
    /\ fdq = [t \in Threads |-> [p \in Pins |-> <<>>]]
    /\ \E c \in [Pins -> {NoEdge, OldEdge}] :
          cache = [t \in Threads |-> [p \in Pins |->
                      IF t = Main THEN c[p] ELSE NoEdge]]
    /\ async_interrupts = [t \in Threads |-> [p \in Pins |-> 0]]
    /\ workers = [w \in Wids |-> FreeWorker]
    /\ call = [t \in Threads |-> Idle]
    /\ ret = [t \in Threads |-> NoRet]
    /\ nedges = 0

\* The runs of SpecPolls, from pins that are armed and may hold cached edges
SpecCached == InitCached /\ [][NextPolls]_vars

\* The threads share the main thread's handle by reference and create and
\* drop input and output guards on its pins, register access by register
\* access.
InitMode ==
    \E m \in [Pins -> StartModes] : InitLiveWith(RegsOf(m, Pins, ZeroRegs))

NextMode ==
    \E t \in Threads :
        \/ \E p \in Pins :
            \/ NewGuardStart(t, p, "in", Mode_Input)
            \/ \E m \in OutModes : NewGuardStart(t, p, "out", m)
            \/ DropGuardStart(t, p)
        \/ SetModeRead(t)
        \/ SetModeWrite(t)

SpecMode == InitMode /\ [][NextMode]_vars

\* The main thread arms synchronous interrupts through input guards only,
\* drops the guards, clears interrupts and polls through the handle and
\* through the guards while edges arrive.
NextGuardArm ==
    \/ \E p \in Pins :
        \/ AsInput(Main, p)
        \/ DropInputPin(Main, p)
        \/ \E g \in ArmTriggers : PinSetInterrupt(Main, p, g)
        \/ GpioClearInterrupt(Main, p)
        \/ PinClearInterrupt(Main, p)
        \/ \E e \in EdgeKinds : Edge(p, e)
        \/ \E timeout \in BOOLEAN :
              \/ GpioPollInterrupt(Main, p, FALSE, timeout)
              \/ PinPollInterrupt(Main, p, FALSE, timeout)
    \/ FinishSetInterrupt(Main)
    \/ FinishDropInputPin(Main)

SpecGuardArm == InitMode /\ [][NextGuardArm]_vars

(* --------------------------------------------------------------- claims *)
Live(t) == pc[t] = "live"

\* The thread's handle was constructed and has been torn down since.
TornDown(t) == pc[t] = "idle" /\ lastNew[t] = "Ok"

\* C1: at most one successfully constructed Gpio is live at any time,
\* whatever the interleaving of concurrent Gpio::new calls and drops.
C1_AtMostOneLive == Cardinality({t \in Threads : Live(t)}) <= 1

\* C2: in a single thread, Gpio::new called while the handle is live returns
\* InstanceExists and leaves the handle live, and Gpio::new called when no
\* handle is live (before the first, or after a teardown) passes the check
\* and, if no device step fails, returns the handle; round after round.
C2_SecondFailsThenSucceeds ==
    [][/\ (NewLoad(Main) /\ Live(Main)) =>
              lastNew'[Main] = "InstanceExists" /\ Live(Main)'
       /\ (NewLoad(Main) /\ ~Live(Main)) => pc'[Main] = "init"
       /\ NewSwap(Main) => Live(Main)' /\ lastNew'[Main] = "Ok"
       /\ (Cleanup(Main) \/ DropGpio(Main)) =>
              ~Live(Main)' /\ ~GPIO_INSTANCED']_vars

C2_Witness == Live(Main) /\ lastNew[Main] = "InstanceExists"

\* C3: a Gpio::new that fails at a device step (find_driver, GpioMem::open,
\* EventLoop::new) does not leave the flag claimed: whenever no handle is
\* live the flag is clear, so the next Gpio::new passes the load.
C3_FailedNewLeavesFlagFree ==
    (\A t \in Threads : ~Live(t)) => ~GPIO_INSTANCED

C3_Witness ==
    /\ \A t \in Threads : pc[t] = "idle"
    /\ \E t \in Threads : lastNew[t] \in {"UnknownSoC", "PermissionDenied", "Io"}
    /\ \E t \in Threads : lastNew[t] = "Io" /\ gpio[t].mapped

\* The pin has an asynchronous registration: in the handle's table or in the
\* input guard of the pin.
AsyncArmed(t, p) == async_interrupts[t][p] # 0 \/ GuardAsync(t, p) # 0

\* C4: between calls, no pin has both a synchronous trigger armed and an
\* asynchronous interrupt registered, whether the calls went through the
\* handle, through an input guard, or through both.
C4_AtMostOneKind ==
    \A t \in Threads, p \in Pins :
        Ready(t) => ~(sync_interrupts[t][p] # "Disabled" /\ AsyncArmed(t, p))

\* Worker threads of pin p that run
WorkersOn(p) == {w \in Wids : Running(w) /\ workers[w].pin = p}

\* C5: when set_interrupt returns with a trigger armed, no worker thread of
\* the pin runs any more (so no callback is invoked afterwards), and when
\* set_async_interrupt returns with its worker started, the pin's
\* synchronous trigger is disarmed and the new worker is the pin's only one.
C5_ArmingTearsDownOther ==
    [][\A t \in Threads, p \in Pins :
        /\ (/\ FinishSetInterrupt(t)
            /\ call[t].pin = p
            /\ call[t].trigger # "Disabled") => WorkersOn(p)' = {}
        /\ (FinishSetAsyncInterrupt(t) /\ call[t].pin = p) =>
              /\ sync_interrupts'[t][p] = "Disabled"
              /\ Cardinality(WorkersOn(p)') = 1]_vars

C7_GuardRestoresMode ==
    [][\A t \in Threads, p \in Pins :
        /\ (guard[t][p] = NoGuard /\ guard'[t][p] # NoGuard) =>
              /\ guard'[t][p].was = PinMode(regs, p)
              /\ PinMode(regs', p) = guard'[t][p].mode
              /\ (PinMode(regs, p) = guard'[t][p].mode => ~wrote')
        /\ (guard[t][p] # NoGuard /\ guard'[t][p] = NoGuard) =>
              /\ PinMode(regs', p) =
                    IF guard[t][p].clear_on_drop
                    THEN guard[t][p].was ELSE guard[t][p].mode
              /\ (guard[t][p].was = guard[t][p].mode => ~wrote')]_vars

C7_Witness ==
    \E p \in Pins :
        /\ guard[Main][p] = NoGuard
        /\ wrote
        /\ PinMode(regs, p) = Mode_Alt0
        /\ \E q \in Pins : q # p /\ guard[Main][q] # NoGuard
                           /\ guard[Main][q].prev_mode = NoMode

\* C8: teardown of the handle, by cleanup() or by scope exit, closes the
\* register bus and releases the flag whatever clear_on_drop is, with at
\* most one close per handle.
C8_TeardownClosesBus ==
    TornDown(Main) =>
        /\ ~gpio[Main].mapped
        /\ ~GPIO_INSTANCED
        /\ gpio[Main].close_calls <= 1

\* C9: with the handle's clear_on_drop left true, once the handle is gone
\* every pin has the mode it had when the handle was constructed.
C9_PinsResetOnDrop ==
    (TornDown(Main) /\ gpio[Main].clear_on_drop) =>
        \A p \in Pins : PinMode(regs, p) = PinMode(orig[Main], p)

\* C10: poll_interrupt with reset = true never returns the edge the pin had
\* cached when the call started, and poll_interrupt with reset = false on a
\* pin with a cached edge returns that edge without waiting on the
\* multiplexer and without reading the line-event handles, and empties the
\* pin's cache; through the handle and through an input guard alike.
C10_ResetDiscardsCachedEdge ==
    [][\A t \in Threads, p \in Pins, timeout \in BOOLEAN :
        /\ (GpioPollInterrupt(t, p, TRUE, timeout)
              \/ PinPollInterrupt(t, p, TRUE, timeout)) =>
              (cache[t][p] # NoEdge => ret'[t].edge # cache[t][p])
        /\ ((GpioPollInterrupt(t, p, FALSE, timeout)
              \/ PinPollInterrupt(t, p, FALSE, timeout))
                /\ cache[t][p] # NoEdge) =>
              /\ ret'[t].res = "Some"
              /\ ret'[t].edge = cache[t][p]
              /\ ~ret'[t].waited
              /\ cache'[t][p] = NoEdge
              /\ fdq' = fdq]_vars

C10_Witness ==
    /\ ret[Main].op = "poll_interrupt"
    /\ ret[Main].reset
    /\ ret[Main].had # NoEdge
    /\ ret[Main].res = "Some"
    /\ ret[Main].edge.seq > ret[Main].had.seq

InvalidPinUntouched ==
    UNCHANGED <<regs, guard, sync_interrupts, fdq, cache, async_interrupts,
                workers, call>>

\* C12: every method of the handle that takes a pin index returns
\* InvalidPin carrying the index when the index is >= GPIO_MAX_PINS, and
\* leaves registers, trigger registrations, cached edges and workers as they
\* were; poll_interrupts returns InvalidPin for the first invalid index of
\* its slice before it resets or waits; get_pin returns None for such an
\* index; no call returns InvalidPin for an index below GPIO_MAX_PINS.
C12_InvalidPinNoEffect ==
    [][\A t \in Threads :
        /\ \A p \in BadPins :
              /\ (\/ \E pud \in PullUpDowns : GpioSetPullUpDown(t, p, pud)
                  \/ \E g \in Triggers : GpioSetInterrupt(t, p, g)
                  \/ GpioClearInterrupt(t, p)
                  \/ \E g \in Triggers : GpioSetAsyncInterrupt(t, p, g)
                  \/ GpioClearAsyncInterrupt(t, p)
                  \/ \E reset, timeout \in BOOLEAN :
                        GpioPollInterrupt(t, p, reset, timeout)) =>
                    /\ ret'[t].res = "InvalidPin"
                    /\ ret'[t].pin = p
                    /\ InvalidPinUntouched
              /\ GetPin(t, p) => ret'[t].res = "None" /\ InvalidPinUntouched
        /\ \A ps \in ArgSlices :
              (/\ Range(ps) \cap BadPins # {}
               /\ \E reset, timeout \in BOOLEAN :
                     GpioPollInterrupts(t, ps, reset, timeout)) =>
                    /\ ret'[t].res = "InvalidPin"
                    /\ ret'[t].pin = FirstInvalid(ps)
                    /\ InvalidPinUntouched
        /\ (ret'[t] # ret[t] /\ ret'[t].res = "InvalidPin") =>
              ret'[t].pin >= GPIO_MAX_PINS
        /\ (ret'[t] # ret[t] /\ ret'[t].op = "get_pin"
              /\ ret'[t].pin < GPIO_MAX_PINS) => ret'[t].res = "Some"]_vars

C12_Witness ==
    /\ ret[Main].op = "poll_interrupts"
    /\ ret[Main].res = "InvalidPin"
    /\ \E p \in Pins : cache[Main][p] # NoEdge
    /\ \E p \in Pins : sync_interrupts[Main][p] # "Disabled"
    /\ \E w \in Wids : Running(w)

\* Pin indexes whose level bit the model's register words can hold (bits
\* 0 .. 30 of a word), in the level words the model keeps
LevelPins ==
    {q \in 0..(GPIO_MAX_PINS - 1) :
        q % 32 < 31 /\ LevWord(q) \in {LevWord(p) : p \in Pins}}

\* C13: write(level) through an output guard makes the pin's level that
\* level and leaves the level of every other pin as it was; no other step
\* (guard creation, guard drop, read) changes any pin's level; read through
\* an input guard returns the pin's level. So a read after write(High)
\* returns High until write(Low), across guard drops and re-creations.
C13_WriteThenRead ==
    [][/\ \A t \in Threads, p \in Pins, l \in Levels :
            OutputPinWrite(t, p, l) =>
                /\ ReadLevel(regs', p) = l
                /\ \A q \in LevelPins \ {p} :
                      ReadLevel(regs', q) = ReadLevel(regs, q)
       /\ \/ \E t \in Threads, p \in Pins, l \in Levels :
                OutputPinWrite(t, p, l)
          \/ \A q \in LevelPins : ReadLevel(regs', q) = ReadLevel(regs, q)
       /\ \A t \in Threads, p \in Pins :
            InputPinRead(t, p) =>
                ret'[t].res = ReadLevel(regs, p) /\ ret'[t].pin = p]_vars

C13_Witness ==
    /\ ret[Main].op = "read"
    /\ ret[Main].res = "High"
    /\ ret[Main].pin \div 32 = 1
    /\ guard[Main][ret[Main].pin] # NoGuard
    /\ guard[Main][ret[Main].pin].kind = "in"
    /\ \E q \in Pins : q \div 32 = 0 /\ ReadLevel(regs, q) = "Low"
                       /\ guard[Main][q] # NoGuard
                       /\ guard[Main][q].kind = "out"

\* C14: when a set_pullupdown returns, the writes it made are, in order:
\* the pull-control register with the control code in its low 2 bits and its
\* other 30 bits as they were, the pin's pull-clock word (pin / 32) with
\* only bit (pin % 32) set, the pull-control register with the control code
\* cleared, the pull-clock word with 0; and then the control code reads 0,
\* the pin's clock word reads 0 and the other 30 bits of the pull-control
\* register are as before the call.
C14_PullSequence ==
    [][\A t \in Threads :
          (InPud(t) /\ call[t].step = 4 /\ PudStep(t)) =>
             LET c == call[t]
                 w == ret'[t].writes
                 clk == GPIO_OFFSET_GPPUDCLK + (c.pin \div 32)
             IN  /\ ret'[t].res = "Ok"
                 /\ Len(w) = 4
                 /\ w[1][1] = GPIO_OFFSET_GPPUD
                 /\ w[1][2] % 4 = c.pud
                 /\ w[1][2] \div 4 = c.before \div 4
                 /\ w[2] = <<clk, Pow2(c.pin % 32)>>
                 /\ w[3][1] = GPIO_OFFSET_GPPUD
                 /\ w[3][2] % 4 = 0
                 /\ w[3][2] \div 4 = c.before \div 4
                 /\ w[4] = <<clk, 0>>
                 /\ regs'[GPIO_OFFSET_GPPUD] % 4 = 0
                 /\ regs'[clk] = 0
                 /\ regs'[GPIO_OFFSET_GPPUD] \div 4 = c.before \div 4]_vars

C14_Witness ==
    /\ call[Main] = Idle
    /\ ret[Main].op = "set_pullupdown"
    /\ ret[Main].res = "Ok"
    /\ ret[Main].pud = PullUp
    /\ ret[Main].pin \div 32 = 1
    /\ ret[Main].before \div 4 # 0
    /\ regs[GPIO_OFFSET_GPPUD] = ret[Main].before

\* C15: no two threads are inside a set_pullupdown sequence at the same
\* time, and every set_pullupdown that returned clocked the pull state
\* requested for its pin into the pin.
C15_PullSerialised ==
    /\ \A t \in Threads, u \in Threads :
          (InPud(t) /\ InPud(u)) => t = u
    /\ \A t \in Threads :
          (ret[t].op = "set_pullupdown" /\ ret[t].res = "Ok") =>
              ret[t].latched = ret[t].pud

\* A synchronous poll of thread t is in flight
InPoll(t) == call[t] # Idle /\ call[t].op = "poll"

C17_DropStopsWorker ==
    [][\A t \in Threads, p \in Pins :
        /\ \A w \in Wids :
              (DropInputPin(t, p) /\ guard[t][p].async_interrupt = w) =>
                  /\ workers'[w].stop
                  /\ guard'[t][p].async_interrupt = 0
                  /\ regs' = regs
        /\ \A w \in Wids :
              (FinishDropInputPin(t) /\ call[t].pin = p /\ call[t].had = w) =>
                  ~Running(w)
        /\ (FinishDropInputPin(t) /\ call[t].pin = p) =>
              WorkersOn(p)' = {}]_vars

\* C18: a pin's cache holds one edge or none; when a wake of poll_interrupts
\* reads edges of a pin whose edge is not the one returned, the pin's cache
\* afterwards holds the newest edge read, which is newer than the cached
\* edge it replaces; every edge still unread in a pin's handle is newer than
\* the pin's cached edge; a poll_interrupts with reset = false of a single
\* pin with a cached edge returns that edge.
C18_NewestEdgeCached ==
    [][\A t \in Threads, q \in Pins :
        /\ cache'[t][q] = NoEdge \/ cache'[t][q].level \in Levels
        /\ \A i \in 1..Len(fdq'[t][q]) :
              fdq'[t][q][i].seq > cache'[t][q].seq
        /\ \A ps \in PinSlices, reset, timeout \in BOOLEAN :
              (/\ GpioPollInterrupts(t, ps, reset, timeout)
               /\ ret'[t].waited
               /\ q \in ReadyPins(t)
               /\ ret'[t].res = "Some" => ret'[t].pin # q) =>
                  /\ cache'[t][q].level \in Levels
                  /\ cache'[t][q].seq = fdq[t][q][Len(fdq[t][q])].seq
                  /\ cache'[t][q].seq > cache[t][q].seq
        /\ \A timeout \in BOOLEAN :
              (GpioPollInterrupts(t, <<q>>, FALSE, timeout)
                  /\ cache[t][q] # NoEdge) =>
                    /\ ret'[t].res = "Some" /\ ret'[t].pin = q
                    /\ ret'[t].edge = cache[t][q]]_vars

C18_Witness ==
    /\ ret[Main].op = "poll_interrupts"
    /\ ret[Main].waited
    /\ \E q \in ret[Main].woke :
          /\ q \notin ret[Main].pins
          /\ ret[Main].had[q] # NoEdge
          /\ cache[Main][q] # NoEdge
          /\ cache[Main][q].seq > ret[Main].had[q].seq

\* The pin has no synchronous registration: no trigger, no line-event
\* handle holding edges, no cached edge
Unarmed(t, p) ==
    /\ sync_interrupts[t][p] = "Disabled"
    /\ fdq[t][p] = <<>>
    /\ cache[t][p] = NoEdge

HandleOwners(w) ==
    {x \in {"gpio"} \X Threads \X Pins : async_interrupts[x[2]][x[3]] = w}
    \cup {x \in {"pin"} \X Threads \X Pins : GuardAsync(x[2], x[3]) = w}
    \cup {x \in {"call"} \X Threads \X {0} :
            IF call[x[2]] = Idle THEN FALSE
            ELSE IF call[x[2]].op \in {"poll", "set_pullupdown"} THEN FALSE
            ELSE call[x[2]].w = w}
    \cup {x \in {"left"} \X Threads \X {0} :
            IF call[x[2]] = Idle THEN FALSE
            ELSE IF call[x[2]].op # "drop_gpio" THEN FALSE
            ELSE w \in call[x[2]].left}

AfterReset(t, q, ps, reset) ==
    IF reset /\ q \in Range(ps) THEN NoEdge ELSE cache[t][q]

\* C22, as the spec states it: a poll_interrupts never empties the cache of
\* a pin outside the requested set, and a poll_interrupts that returns an
\* edge of one pin leaves the edge cached for every other pin as reset left
\* it (discarded for a requested pin when reset = true, kept otherwise).
C22_OtherCachesUntouched ==
    [][\A t \in Threads, ps \in PinSlices, reset, timeout \in BOOLEAN :
          GpioPollInterrupts(t, ps, reset, timeout) =>
             /\ \A q \in Pins \ Range(ps) :
                   cache'[t][q] = NoEdge => cache[t][q] = NoEdge
             /\ ret'[t].res = "Some" =>
                   \A q \in Pins \ {ret'[t].pin} :
                      cache[t][q] # NoEdge =>
                         cache'[t][q] = AfterReset(t, q, ps, reset)]_vars

\* C22, amended: a poll_interrupts never empties the cache of a pin outside
\* the requested set; a poll_interrupts that returns an edge of one pin
\* leaves the cache of every other pin as reset left it, unless it waited
\* and that pin's handle was ready in the wake: then the pin's cache holds
\* the newest edge read from its handle, in place of what it held; a
\* poll_interrupts with reset = false that names one pin with a cached edge
\* returns that edge.
C22_OtherCachesKeptUnlessWoken ==
    [][\A t \in Threads, ps \in PinSlices, reset, timeout \in BOOLEAN :
          /\ GpioPollInterrupts(t, ps, reset, timeout) =>
               /\ \A q \in Pins \ Range(ps) :
                     cache'[t][q] = NoEdge => cache[t][q] = NoEdge
               /\ ret'[t].res = "Some" =>
                     \A q \in Pins \ {ret'[t].pin} :
                        IF ret'[t].waited /\ q \in ReadyPins(t)
                        THEN cache'[t][q].seq = fdq[t][q][Len(fdq[t][q])].seq
                        ELSE cache'[t][q] = AfterReset(t, q, ps, reset)
          /\ (/\ GpioPollInterrupts(t, ps, FALSE, timeout)
              /\ Len(ps) = 1
              /\ cache[t][ps[1]] # NoEdge) =>
                 /\ ret'[t].pin = ps[1]
                 /\ ret'[t].edge = cache[t][ps[1]]]_vars

C22_Witness ==
    /\ ret[Main].op = "poll_interrupts"
    /\ ret[Main].reset
    /\ ret[Main].res = "Some"
    /\ \E p \in ret[Main].pins :
          /\ ret[Main].had[p] # NoEdge
          /\ ret[Main].edge # ret[Main].had[p]
    /\ \E q \in Pins \ ret[Main].pins :
          /\ ret[Main].had[q] # NoEdge
          /\ cache[Main][q] = ret[Main].had[q]

\* C23: a Gpio::new call that returns InstanceExists (from the load of line
\* 272 or from the compare_and_swap of line 314) leaves GPIO_INSTANCED as it
\* found it, and a Gpio::new that starts while another thread's handle is
\* live returns InstanceExists at the load.
C23_FailedNewKeepsClaim ==
    [][\A t \in Threads :
          /\ ((NewLoad(t) \/ NewLostDrop(t)) /\ lastNew'[t] = "InstanceExists")
                => GPIO_INSTANCED' = GPIO_INSTANCED
          /\ (NewLoad(t) /\ \E u \in Threads \ {t} : Live(u))
                => lastNew'[t] = "InstanceExists"]_vars

\* C24: a step changes the mode of pin q only if it is the write of a
\* set_mode of pin q (guard creation or guard scope exit), and that write
\* leaves pin q in the mode set_mode was called with; so the set_mode of one
\* pin changes the mode of no other pin, also when another thread is inside
\* a set_mode of a pin of the same function-select word.
C24_ModeWritesNotLost ==
    [][/\ \A q \in Pins :
            PinMode(regs', q) # PinMode(regs, q) =>
               \E t \in Threads : SetModeWrite(t) /\ call[t].pin = q
       /\ \A t \in Threads :
            SetModeWrite(t) => PinMode(regs', call[t].pin) = call[t].mode]_vars

\* C25: when a clear_async_interrupt, or the set_interrupt or
\* set_async_interrupt that called it, returns ThreadPanic for pin p, the
\* slot it took the worker from is already empty, the call has armed no
\* trigger and started no worker, and the pin is left with no asynchronous
\* registration and no running worker; a clear_async_interrupt of pin p that
\* follows a call that returned ThreadPanic for pin p finds nothing to stop,
\* so that it cannot report ThreadPanic again.
C25_PanicLeavesPinClear ==
    [][\A t \in Threads, p \in Pins :
        /\ (FinishThreadPanic(t) /\ call[t].pin = p) =>
              /\ SlotOf(t, call[t].via, p) = 0
              /\ ret'[t].res = "ThreadPanic"
              /\ sync_interrupts' = sync_interrupts
              /\ \A w \in Wids : Running(w)' => Running(w)
              /\ ~AsyncArmed(t, p)'
              /\ WorkersOn(p)' = {}
        /\ (/\ GpioClearAsyncInterrupt(t, p) \/ PinClearAsyncInterrupt(t, p)
            /\ ret[t].res = "ThreadPanic"
            /\ ret[t].pin = p) => call'[t].w = 0]_vars

\* A step that can change a pin's cached edge: a poll, set_interrupt or
\* clear_interrupt
LoopStep(t) ==
    \/ FinishSetInterrupt(t)
    \/ \E q \in Pins :
        \/ GpioClearInterrupt(t, q)
        \/ PinClearInterrupt(t, q)
        \/ \E reset, timeout \in BOOLEAN :
              \/ GpioPollInterrupt(t, q, reset, timeout)
              \/ PinPollInterrupt(t, q, reset, timeout)

\* C26: the scope exit of an input guard, in both of its steps, leaves every
\* synchronous registration, every unread edge and every cached edge as it
\* was, and its second step restores the mode and ends the guard; a pin's
\* trigger changes only in set_interrupt or clear_interrupt, and a pin's
\* cached edge changes only in a poll, set_interrupt or clear_interrupt.
C26_SyncOutlivesGuard ==
    [][\A t \in Threads, p \in Pins :
        /\ DropInputPin(t, p) => loopVars' = loopVars /\ regs' = regs
        /\ (FinishDropInputPin(t) /\ call[t].pin = p) =>
              /\ loopVars' = loopVars
              /\ guard'[t][p] = NoGuard
              /\ regs' = DropGuardRegs(regs, p, guard[t][p])
        /\ sync_interrupts'[t][p] # sync_interrupts[t][p] =>
              \/ FinishSetInterrupt(t)
              \/ GpioClearInterrupt(t, p)
              \/ PinClearInterrupt(t, p)
        /\ cache'[t][p] # cache[t][p] => LoopStep(t)]_vars

\* No guard is left, the pin is back in the mode it had before its guard,
\* its trigger is still armed, and poll_interrupt through the handle has
\* returned the edge the pin had cached.
C26_Witness ==
    /\ Unborrowed(Main)
    /\ ret[Main].op = "poll_interrupt"
    /\ ret[Main].res = "Some"
    /\ ~ret[Main].waited
    /\ ret[Main].had # NoEdge
    /\ ret[Main].edge = ret[Main].had
    /\ sync_interrupts[Main][ret[Main].pin] # "Disabled"
    /\ PinMode(regs, ret[Main].pin) # Mode_Input

====
